---------------------------- MODULE Spec2Model ----------------------------
(***************************************************************************)
(* ResumeOS: the skill-gap analysis engine (utils/keywords.js), the AI     *)
(* response normalizer (utils/ai.js) and the TAILOR_RESUME handler of the  *)
(* background service worker (background/background.js).                   *)
(*                                                                         *)
(* Texts are TLA+ strings handled character by character, so that          *)
(* lower-casing, punctuation stripping, splitting and JSON parsing are     *)
(* computed the way the JavaScript computes them.                          *)
(***************************************************************************)
EXTENDS Integers, Sequences, FiniteSets, TLC

VARIABLES
    kwResume,         \* resumeText argument of analyzeKeywords (settings.baseResumeText)
    kwJob,            \* jobDescription argument of the last analyzeKeywords call
    keywordAnalysis,  \* sidepanel state.keywordAnalysis: null or the analysis
    replyText,        \* the reply text handed to parseResumeJSON
    normalized,       \* null, or the outcome of parseResumeJSON(replyText)
    settings,         \* chrome.storage.local: ros_apiKey and ros_baseResume
    memorySummary,    \* memory.aggregate.preferenceSummary
    tailorPc,         \* where the TAILOR_RESUME handler stands
    tailorData,       \* message data of the request being handled
    genOutcome,       \* what generateContent does when this request calls it
    tailorResponse,   \* null, or the response sent for the request
    signal,           \* the raw failure handed to parseGeminiError
    classified,       \* null, or the outcome of parseGeminiError(signal)
    aggregateArg,     \* the aggregate handed to shouldRebuildSummary
    rebuildDue,       \* null, or what shouldRebuildSummary(aggregateArg) returned
    store,            \* chrome.storage.local: resumeos_memory, null when absent
    clock,            \* Date.now()
    calls,            \* the handlers and rebuilds in flight
    started,          \* how many requests the router has taken
    history,          \* what the calls did: the last write (or the write not
                      \* made), sessions returned, summary written, rebuilds
                      \* launched and written, the last RECORD_SESSION answer,
                      \* and whether the memory was cleared with no
                      \* RECORD_SESSION request taken since
    panelState,       \* sidepanel state: currentJob and pendingResume
    els,              \* sidepanel elements: hidden, disabled, textContent
    timers,           \* sidepanel setInterval and setTimeout callbacks pending,
                      \* in the order they fire
    inFlight,         \* null, or the message the side panel awaits the
                      \* response of
    panelLog,         \* what the side panel did: the value last handed to
                      \* showError and the data of the last RECORD_SESSION
                      \* message
    location,         \* content script: window.location (hostname, href)
    jobInDom,         \* whether the page shows a job the extractor can read
    lastExtractedUrl, \* content script: null or the URL last relayed
    debounceTimer,    \* whether the observer's debounce timeout is pending
    retryTimers,      \* the delays of the timed retries still pending
    sentMessages,     \* the JOB_DETECTED messages sent, in order
    failedUrls        \* the URLs at which an extraction returned null

kwVars == <<kwResume, kwJob, keywordAnalysis>>
parseVars == <<replyText, normalized>>
tailorVars == <<settings, memorySummary, tailorPc, tailorData, genOutcome,
                tailorResponse>>
classifyVars == <<signal, classified>>
dueVars == <<aggregateArg, rebuildDue>>
memoryVars == <<store, clock, calls, started, history>>
panelVars == <<panelState, els, timers, inFlight, panelLog>>
contentVars == <<location, jobInDom, lastExtractedUrl, debounceTimer, retryTimers,
                 sentMessages, failedUrls>>
vars == <<kwVars, parseVars, tailorVars, classifyVars, dueVars, memoryVars, panelVars,
          contentVars>>

(***************************************************************************)
(* Bounds of the model.                                                    *)
(***************************************************************************)
MaxJobLines == 2      \* lines of text in a job description
MaxTotal == 12        \* totalSessions and summaryBuiltAt of an aggregate checked alone
StoredAtStart == 4    \* sessions in a memory that is not empty at the start
MaxCalls == 2         \* requests taken by the router while calls interleave
MaxClock == 5         \* below it the clock may stand still between two sessions
MaxInTurn == 11       \* requests taken in turn

(***************************************************************************)
(* JavaScript values, as JSON.parse produces them and as the schema         *)
(* expansion reads them.  A value is a record tagged with its kind t.       *)
(***************************************************************************)
Null == [t |-> "null"]
Undefined == [t |-> "undefined"]
Str(s) == [t |-> "string", v |-> s]
Num(n) == [t |-> "number", v |-> n]
Bool(b) == [t |-> "boolean", v |-> b]
Arr(items) == [t |-> "array", v |-> items]
Obj(members) == [t |-> "object", v |-> members]   \* members: key -> value

(***************************************************************************)
(* String helpers: a character is a string of length one.                  *)
(***************************************************************************)
Char(s, i) == SubSeq(s, i, i)

Concat(parts) ==
    LET
        \* the strings parts[lo..hi] joined (by halves: the evaluation stays shallow)
        RECURSIVE ConcatRange(_, _, _)
        ConcatRange(list, lo, hi) ==
            IF lo > hi THEN ""
            ELSE IF lo = hi THEN list[lo]
            ELSE ConcatRange(list, lo, (lo + hi) \div 2)
                   \o ConcatRange(list, ((lo + hi) \div 2) + 1, hi)
    IN  ConcatRange(parts, 1, Len(parts))

SeqToSet(q) == {q[i] : i \in 1..Len(q)}

UpperToLower ==
    [A |-> "a", B |-> "b", C |-> "c", D |-> "d", E |-> "e", F |-> "f",
     G |-> "g", H |-> "h", I |-> "i", J |-> "j", K |-> "k", L |-> "l",
     M |-> "m", N |-> "n", O |-> "o", P |-> "p", Q |-> "q", R |-> "r",
     S |-> "s", T |-> "t", U |-> "u", V |-> "v", W |-> "w", X |-> "x",
     Y |-> "y", Z |-> "z"]

UpperLetters == DOMAIN UpperToLower
LowerLetters == {UpperToLower[c] : c \in UpperLetters}
Digits == {"0", "1", "2", "3", "4", "5", "6", "7", "8", "9"}

\* the regular-expression class \w
WordChars == UpperLetters \cup LowerLetters \cup Digits \cup {"_"}

\* the regular-expression class \s
SpaceChars == {" ", "\t", "\n", "\r"}

\* String.prototype.toLowerCase
toLowerCase(s) ==
    Concat([i \in 1..Len(s) |->
              IF Char(s, i) \in UpperLetters
              THEN UpperToLower[Char(s, i)]
              ELSE Char(s, i)])

\* the pieces of s between separators that begin at starts[k] and end at ends[k]
Pieces(s, starts, ends) ==
    [k \in 1..(Len(starts) + 1) |->
        SubSeq(s,
               IF k = 1 THEN 1 ELSE ends[k - 1] + 1,
               IF k = Len(starts) + 1 THEN Len(s) ELSE starts[k] - 1)] \o <<>>

\* String.prototype.split(sep) for a one-character separator: the pieces
\* between consecutive separators, empty pieces included
split(s, sep) ==
    LET isSep(i) == Char(s, i) = sep
        seps == SelectSeq([i \in 1..Len(s) |-> i], isSep)
    IN  Pieces(s, seps, seps)

\* String.prototype.split(/\s+/): a maximal run of white space is one
\* separator; a leading or trailing run leaves an empty piece
splitWhitespace(s) ==
    LET runStart(i) == /\ Char(s, i) \in SpaceChars
                       /\ (i = 1 \/ Char(s, i - 1) \notin SpaceChars)
        runEnd(i) == /\ Char(s, i) \in SpaceChars
                     /\ (i = Len(s) \/ Char(s, i + 1) \notin SpaceChars)
    IN  Pieces(s, SelectSeq([i \in 1..Len(s) |-> i], runStart),
                  SelectSeq([i \in 1..Len(s) |-> i], runEnd))

(***************************************************************************)
(* utils/keywords.js: the skill lists and the skill graph.                 *)
(***************************************************************************)
HARD_SKILLS == <<
    "Python", "Java", "JavaScript", "TypeScript", "C", "C++", "C#", "Go", "Rust",
    "Kotlin", "Swift", "PHP", "Ruby", "Scala", "MATLAB", "R", "Dart",
    "HTML", "CSS", "React", "Next.js", "Vue.js", "Angular", "Node.js",
    "Express.js", "REST APIs", "GraphQL", "Web Applications",
    "Frontend Development", "Backend Development", "Full Stack Development",
    "Responsive Design", "Web Performance", "SEO Optimization",
    "Object Oriented Programming",
    "Data Structures",
    "Algorithms",
    "System Design",
    "Design Patterns",
    "Software Architecture",
    "Microservices",
    "Monolithic Architecture",
    "API Development",
    "Application Development",
    "Unit Testing",
    "Integration Testing",
    "Test Automation",
    "Debugging",
    "Code Reviews",
    "Peer Reviews",
    "Version Control",
    "Docker", "Kubernetes", "CI/CD", "Jenkins", "GitHub Actions",
    "Terraform", "Infrastructure as Code",
    "Linux", "Shell Scripting",
    "Cloud Infrastructure",
    "Site Reliability Engineering",
    "Monitoring", "Logging", "Observability",
    "AWS", "Google Cloud Platform", "Microsoft Azure",
    "Serverless Architecture", "Cloud Deployment",
    "Load Balancing", "Auto Scaling",
    "SQL", "PostgreSQL", "MySQL", "MongoDB", "Redis",
    "Database Optimization", "Data Modeling",
    "ETL Pipelines", "Data Warehousing",
    "Apache Spark", "Kafka", "Airflow",
    "Big Data", "Data Pipelines",
    "Machine Learning",
    "Deep Learning",
    "Natural Language Processing",
    "Computer Vision",
    "TensorFlow",
    "PyTorch",
    "Scikit-learn",
    "Feature Engineering",
    "Model Evaluation",
    "MLOps",
    "LLMs",
    "Generative AI",
    "RAG Systems",
    "Prompt Engineering",
    "Authentication",
    "Authorization",
    "OAuth",
    "JWT",
    "Cybersecurity",
    "Secure Coding",
    "Android Development",
    "iOS Development",
    "React Native",
    "Flutter",
    "Mobile Applications",
    "Distributed Systems",
    "High Availability",
    "Scalability",
    "Performance Optimization",
    "Caching",
    "Event Driven Architecture",
    "Agile",
    "Scrum",
    "Agile Development",
    "Proof of Concept",
    "Technical Documentation" >>

SOFT_SKILLS == <<
    "Communication",
    "Collaboration",
    "Teamwork",
    "Problem Solving",
    "Analytical Thinking",
    "Critical Thinking",
    "Leadership",
    "Ownership",
    "Mentorship",
    "Innovation",
    "Adaptability",
    "Time Management",
    "Organization",
    "Creativity",
    "Decision Making",
    "Cross Functional Collaboration",
    "Stakeholder Management",
    "Planning",
    "Motivation",
    "Initiative",
    "Attention to Detail",
    "Product Thinking",
    "Customer Focus",
    "Continuous Learning" >>

\* A vocabulary (one category of the graph) is the sequence of its
\* Object.entries: [skill, synonyms] in insertion order.
buildGraph(list) ==
    [k \in 1..Len(list) |->
        [skill |-> list[k], synonyms |-> <<toLowerCase(list[k])>>]]

OTHER_SKILLS == <<
    [skill |-> "Teams",          synonyms |-> <<"team", "teams">>],
    [skill |-> "Products",       synonyms |-> <<"product", "products">>],
    [skill |-> "Infrastructure", synonyms |-> <<"infrastructure">>],
    [skill |-> "Operations",     synonyms |-> <<"operations", "ops">>],
    [skill |-> "People",         synonyms |-> <<"people", "users">>] >>

Categories == <<"hard", "soft", "other">>

SKILL_GRAPH ==
    [hard  |-> buildGraph(HARD_SKILLS),
     soft  |-> buildGraph(SOFT_SKILLS),
     other |-> OTHER_SKILLS]

STOPWORDS ==
    {"the", "a", "an", "and", "or", "to", "of", "in", "on", "for",
     "with", "our", "your", "you", "we", "is", "are", "be", "this",
     "that", "will", "can", "should", "may"}

(***************************************************************************)
(* normalize: lower-case, every character that is neither a word character *)
(* nor white space becomes a space, split on white-space runs, drop empty  *)
(* strings and stopwords.                                                  *)
(***************************************************************************)
normalize(text) ==
    LET
        \* String.prototype.replace(/[^\w\s]/g, " ")
        replaceNonWord(s) ==
            Concat([i \in 1..Len(s) |->
                      IF Char(s, i) \in WordChars \/ Char(s, i) \in SpaceChars
                      THEN Char(s, i)
                      ELSE " "])

        \* Array.prototype.filter(w => w && !STOPWORDS.has(w))
        dropStopwords(words) ==
            LET kept(w) == w # "" /\ w \notin STOPWORDS IN SelectSeq(words, kept)
    IN  dropStopwords(splitWhitespace(replaceNonWord(toLowerCase(text))))

(***************************************************************************)
(* JavaScript numbers.  matched / total and the product by 100 are IEEE    *)
(* 754 double operations, each rounded to a 53-bit significand (nearest,   *)
(* ties to even).  A double is [m, e] standing for m * 2^e with m below    *)
(* 2^53; m is an unbounded natural held as little-endian limbs, because    *)
(* the model checker's integers are 32 bits wide.                          *)
(***************************************************************************)
calcScore(matched, total) ==
    LET
        LimbBits == 15
        LimbBase == 32768         \* 2^LimbBits
        SignificandBits == 53

        RECURSIVE Pow2(_)
        Pow2(n) == IF n = 0 THEN 1 ELSE 2 * Pow2(n - 1)

        RECURSIVE BigTrim(_)
        BigTrim(a) ==
            IF a # <<>> /\ a[Len(a)] = 0 THEN BigTrim(SubSeq(a, 1, Len(a) - 1)) ELSE a

        BigFromInt(n) == BigTrim(<<n % LimbBase, n \div LimbBase>>)

        RECURSIVE BigToInt(_)
        BigToInt(a) == IF a = <<>> THEN 0 ELSE Head(a) + LimbBase * BigToInt(Tail(a))

        RECURSIVE BigMulCarry(_, _, _)
        BigMulCarry(a, k, carry) ==
            IF a = <<>> THEN BigFromInt(carry)
            ELSE LET v == Head(a) * k + carry
                 IN  <<v % LimbBase>> \o BigMulCarry(Tail(a), k, v \div LimbBase)

        \* a * k for a small k
        BigMulSmall(a, k) == BigTrim(BigMulCarry(a, k, 0))

        RECURSIVE BigAddCarry(_, _, _)
        BigAddCarry(a, b, carry) ==
            IF a = <<>> /\ b = <<>> THEN BigFromInt(carry)
            ELSE LET x == IF a = <<>> THEN 0 ELSE Head(a)
                     y == IF b = <<>> THEN 0 ELSE Head(b)
                     v == x + y + carry
                 IN  <<v % LimbBase>>
                       \o BigAddCarry(IF a = <<>> THEN a ELSE Tail(a),
                                      IF b = <<>> THEN b ELSE Tail(b),
                                      v \div LimbBase)

        BigAdd(a, b) == BigTrim(BigAddCarry(a, b, 0))

        \* [q, r] with a = q * k + r, 0 <= r < k, for a small k (most significant limb first)
        RECURSIVE BigDivLimbs(_, _, _, _)
        BigDivLimbs(a, k, i, st) ==
            IF i = 0 THEN [q |-> BigTrim(st.q), r |-> st.r]
            ELSE LET v == st.r * LimbBase + a[i]
                 IN  BigDivLimbs(a, k, i - 1, [q |-> <<v \div k>> \o st.q, r |-> v % k])

        BigDivSmall(a, k) == BigDivLimbs(a, k, Len(a), [q |-> <<>>, r |-> 0])

        RECURSIVE BitLen(_)
        BitLen(n) == IF n = 0 THEN 0 ELSE 1 + BitLen(n \div 2)

        BigBitLen(a) ==
            IF a = <<>> THEN 0 ELSE (Len(a) - 1) * LimbBits + BitLen(a[Len(a)])

        BigIsOdd(a) == a # <<>> /\ a[1] % 2 = 1

        \* a * 2^n and floor(a / 2^n): whole limbs, then the remaining bits
        BigShiftLeft(a, n) ==
            BigTrim([i \in 1..(n \div LimbBits) |-> 0] \o BigMulSmall(a, Pow2(n % LimbBits)))

        BigShiftRight(a, n) ==
            BigDivSmall(SubSeq(a, (n \div LimbBits) + 1, Len(a)), Pow2(n % LimbBits)).q

        \* q, or q + 1 when the discarded part rem / unit is above one half, or is
        \* one half and q is odd (round to nearest, ties to even)
        RoundHalfEven(q, rem, unit) ==
            IF 2 * rem > unit \/ (2 * rem = unit /\ BigIsOdd(q))
            THEN BigAdd(q, BigFromInt(1))
            ELSE q

        \* the double nearest to a / b, for integers 0 <= a and 0 < b
        DoubleDiv(a, b) ==
            IF a = 0 THEN [m |-> <<>>, e |-> 0]
            ELSE LET \* s: the shift that gives the quotient exactly 53 or 54 bits
                     s  == SignificandBits + BitLen(b) - BitLen(a)
                     d0 == BigDivSmall(BigShiftLeft(BigFromInt(a), s), b)
                     s1 == IF BigBitLen(d0.q) > SignificandBits THEN s - 1 ELSE s
                     d  == BigDivSmall(BigShiftLeft(BigFromInt(a), s1), b)
                 IN  [m |-> RoundHalfEven(d.q, d.r, b), e |-> 0 - s1]

        \* the double nearest to x * k, for a small integer k > 0
        DoubleMulSmall(x, k) ==
            LET p == BigMulSmall(x.m, k)
                c == BigBitLen(p) - SignificandBits
            IN  IF c <= 0 THEN [m |-> p, e |-> x.e]
                ELSE LET d == BigDivSmall(p, Pow2(c))
                     IN  [m |-> RoundHalfEven(d.q, d.r, Pow2(c)), e |-> x.e + c]

        \* Math.round: the integer nearest to x, ties toward +Infinity = floor(x + 1/2)
        MathRound(x) ==
            IF x.e >= 0 THEN BigToInt(BigShiftLeft(x.m, x.e))
            ELSE LET g == 0 - x.e
                 IN  BigToInt(BigShiftRight(
                         BigAdd(BigMulSmall(x.m, 2), BigShiftLeft(BigFromInt(1), g)),
                         g + 1))
    IN  IF total = 0 THEN 0
        ELSE MathRound(DoubleMulSmall(DoubleDiv(matched, total), 100))

(***************************************************************************)
(* detectSkills, calcScore, formatCategory, analyzeKeywords.               *)
(***************************************************************************)
\* a slip: some word of the phrase instead of every word
someFrom(parts, k, tokenSet) == \E i \in k..Len(parts) : parts[i] \in tokenSet

\* parts.every(p => tokenSet.has(p))
RECURSIVE everyFrom(_, _, _)
everyFrom(parts, k, tokenSet) ==
    IF k > Len(parts) THEN TRUE
    ELSE IF parts[k] \notin tokenSet THEN FALSE
    ELSE everyFrom(parts, k + 1, tokenSet)

detectSkills(tokens, vocab) ==
    LET
        synonymMatches(synonym, tokenSet) ==
            everyFrom(split(synonym, " "), 1, tokenSet)

        \* the inner for-loop: stops at the first synonym that matches
        RECURSIVE anySynonymFrom(_, _, _)
        anySynonymFrom(synonyms, j, tokenSet) ==
            IF j > Len(synonyms) THEN FALSE
            ELSE IF synonymMatches(synonyms[j], tokenSet) THEN TRUE
            ELSE anySynonymFrom(synonyms, j + 1, tokenSet)

        \* the outer for-loop over Object.entries(vocab): the detected Set lists
        \* the skills in the order of the vocabulary (its keys are distinct)
        detectInSet(tokenSet, graph) ==
            LET hit(entry) == anySynonymFrom(entry.synonyms, 1, tokenSet)
            IN  SelectSeq(graph, hit)

        SkillNames(entries) == [k \in 1..Len(entries) |-> entries[k].skill] \o <<>>
    IN  SkillNames(detectInSet(SeqToSet(tokens), vocab))

impactLabel(category) ==
    IF category = "hard" THEN "High Impact"
    ELSE IF category = "soft" THEN "Medium Impact"
    ELSE "Low Impact"

\* String.prototype.localeCompare on skill names: -1, 0 or 1.  Names are
\* compared character by character without regard to case, white space and
\* punctuation before digits before letters.
CollationOrder == " -./#+0123456789abcdefghijklmnopqrstuvwxyz"

CollationRanks ==
    [c \in {Char(CollationOrder, i) : i \in 1..Len(CollationOrder)} |->
        CHOOSE i \in 1..Len(CollationOrder) : Char(CollationOrder, i) = c] @@ <<>>

localeCompare(a, b) ==
    LET
        CollationRank(c) ==
            IF c \in DOMAIN CollationRanks THEN CollationRanks[c] ELSE Len(CollationOrder) + 1

        \* the comparison of two lower-cased names from position i on
        RECURSIVE CompareFrom(_, _, _)
        CompareFrom(x, y, i) ==
            IF i > Len(x) /\ i > Len(y) THEN 0
            ELSE IF i > Len(x) THEN -1
            ELSE IF i > Len(y) THEN 1
            ELSE IF Char(x, i) = Char(y, i) THEN CompareFrom(x, y, i + 1)
            ELSE IF CollationRank(Char(x, i)) < CollationRank(Char(y, i)) THEN -1
            ELSE 1
    IN  CompareFrom(toLowerCase(a), toLowerCase(b), 1)

\* Array.prototype.sort((a, b) => a.name.localeCompare(b.name)): stable, so
\* an item is preceded by the items that compare below it and by the equal
\* items that stood before it
SortByName(items) ==
    LET before(j, k) ==
            IF j < k
            THEN localeCompare(items[j].name, items[k].name) <= 0
            ELSE localeCompare(items[j].name, items[k].name) < 0
        rank == [k \in 1..Len(items) |->
                    Cardinality({j \in 1..Len(items) : j # k /\ before(j, k)})] \o <<>>
    IN  [p \in 1..Len(items) |->
            items[CHOOSE k \in 1..Len(items) : rank[k] = p - 1]] \o <<>>

formatCategory(category, data) ==
    LET TagAll(names, tag) ==
            [k \in 1..Len(names) |-> [name |-> names[k], status |-> tag]] \o <<>>
        skills == SortByName(TagAll(data.matched, "matched")
                             \o TagAll(data.missing, "missing"))
    IN  [impact       |-> impactLabel(category),
         title        |-> IF category = "hard" THEN "Hard Skills"
                          ELSE IF category = "soft" THEN "Soft Skills"
                          ELSE "Other Skills",
         score        |-> data.score,
         total        |-> Len(skills),
         missingCount |-> Len(data.missing),
         skills       |-> skills]

\* a slip: the filter without its negation
filterLacksUnnegated(jdSkills, resumeSkillSet) ==
    LET has(x) == x \in resumeSkillSet IN SelectSeq(jdSkills, has)

filterLacks(jdSkills, resumeSkillSet) ==
    LET lacks(x) == x \notin resumeSkillSet IN SelectSeq(jdSkills, lacks)

analyzeKeywords(jobDescription, resumeText) ==
    LET
        \* [...jdSkills].filter(s => resumeSkills.has(s)) and its complement
        filterHas(jdSkills, resumeSkillSet) ==
            LET has(x) == x \in resumeSkillSet IN SelectSeq(jdSkills, has)

        categoryResult(jdSkills, matched, missing) ==
            [matched |-> matched,
             missing |-> missing,
             score   |-> calcScore(Len(matched), Len(jdSkills))]

        compareSkills(jdSkills, resumeSkillSet) ==
            categoryResult(jdSkills,
                           filterHas(jdSkills, resumeSkillSet),
                           filterLacks(jdSkills, resumeSkillSet))

        \* the body of the loop over the categories: results[category]
        analyzeCategory(category, jdTokens, resumeTokens) ==
            compareSkills(detectSkills(jdTokens, SKILL_GRAPH[category]),
                          SeqToSet(detectSkills(resumeTokens, SKILL_GRAPH[category])))

        analyzeTokens(jdTokens, resumeTokens) ==
            [hardSkills  |-> formatCategory("hard",
                                 analyzeCategory("hard", jdTokens, resumeTokens)),
             softSkills  |-> formatCategory("soft",
                                 analyzeCategory("soft", jdTokens, resumeTokens)),
             otherSkills |-> formatCategory("other",
                                 analyzeCategory("other", jdTokens, resumeTokens))]
    IN  analyzeTokens(normalize(jobDescription), normalize(resumeText))

(***************************************************************************)
(* JSON.parse (utils/ai.js calls it at lines 75 and 80).  The grammar is   *)
(* ECMA-404 restricted to what the replies of this model contain: numbers  *)
(* are integers and strings hold no \u escape.  A parse step returns       *)
(* [ok, val, next]: whether a value was read, the value, and the index     *)
(* after it.                                                               *)
(***************************************************************************)
CharAt(s, i) == IF i >= 1 /\ i <= Len(s) THEN Char(s, i) ELSE ""

\* index of the first character at or after i that is not JSON white space
SkipWs(s, i) ==
    IF \E j \in i..Len(s) : Char(s, j) \notin SpaceChars
    THEN CHOOSE j \in i..Len(s) :
            /\ Char(s, j) \notin SpaceChars
            /\ \A k \in i..(j - 1) : Char(s, k) \in SpaceChars
    ELSE Len(s) + 1

\* index after the run of digits starting at i
DigitsEnd(s, i) ==
    IF \E j \in i..Len(s) : Char(s, j) \notin Digits
    THEN CHOOSE j \in i..Len(s) :
            /\ Char(s, j) \notin Digits
            /\ \A k \in i..(j - 1) : Char(s, k) \in Digits
    ELSE Len(s) + 1

DigitValue ==
    [c \in Digits |-> CHOOSE n \in 0..9 : Char("0123456789", n + 1) = c]

RECURSIVE DigitsToInt(_, _, _)
DigitsToInt(s, i, j) ==
    IF j < i THEN 0 ELSE 10 * DigitsToInt(s, i, j - 1) + DigitValue[Char(s, j)]

JSONparse(text) ==
    LET
        ParseFail == [ok |-> FALSE, val |-> Undefined, next |-> 0]
        ParseOk(val, next) == [ok |-> TRUE, val |-> val, next |-> next]

        ParseDigits(s, from, to, sign) ==
            IF to = from THEN ParseFail                                   \* no digit
            ELSE IF Char(s, from) = "0" /\ to > from + 1 THEN ParseFail   \* leading zero
            ELSE IF CharAt(s, to) \in {".", "e", "E"} THEN ParseFail      \* not in this grammar
            ELSE ParseOk(Num(sign * DigitsToInt(s, from, to - 1)), to)

        ParseNumber(s, i) ==
            IF Char(s, i) = "-"
            THEN ParseDigits(s, i + 1, DigitsEnd(s, i + 1), -1)
            ELSE ParseDigits(s, i, DigitsEnd(s, i), 1)

        ParseLiteral(s, i, word, val) ==
            IF i + Len(word) - 1 <= Len(s) /\ SubSeq(s, i, i + Len(word) - 1) = word
            THEN ParseOk(val, i + Len(word))
            ELSE ParseFail

        Escapes ==
            [q |-> "\"", b |-> "\\", s |-> "/", n |-> "\n", t |-> "\t", r |-> "\r"]

        EscapeOf(c) ==
            CASE c = "\"" -> Escapes.q
              [] c = "\\" -> Escapes.b
              [] c = "/" -> Escapes.s
              [] c = "n" -> Escapes.n
              [] c = "t" -> Escapes.t
              [] c = "r" -> Escapes.r
              [] OTHER -> ""

        \* the characters of a string literal from index i up to its closing quote
        RECURSIVE ParseChars(_, _, _)
        ParseChars(s, i, acc) ==
            IF i > Len(s) THEN ParseFail
            ELSE IF Char(s, i) = "\"" THEN ParseOk(Str(acc), i + 1)
            ELSE IF Char(s, i) \in {"\n", "\t", "\r"} THEN ParseFail      \* control character
            ELSE IF Char(s, i) = "\\"
                 THEN IF EscapeOf(CharAt(s, i + 1)) = "" THEN ParseFail
                      ELSE ParseChars(s, i + 2, acc \o EscapeOf(CharAt(s, i + 1)))
            ELSE ParseChars(s, i + 1, acc \o Char(s, i))

        ParseString(s, i) == IF CharAt(s, i) = "\"" THEN ParseChars(s, i + 1, "") ELSE ParseFail

        RECURSIVE ParseValue(_, _)
        RECURSIVE ParseElements(_, _, _)
        RECURSIVE ParseMembers(_, _, _)

        \* after one element r of an array: a comma, the closing bracket, or an error
        AfterElement(s, r, sep, acc) ==
            IF CharAt(s, sep) = "," THEN ParseElements(s, sep + 1, Append(acc, r.val))
            ELSE IF CharAt(s, sep) = "]" THEN ParseOk(Arr(Append(acc, r.val)), sep + 1)
            ELSE ParseFail

        ElementRead(s, r, acc) ==
            IF r.ok THEN AfterElement(s, r, SkipWs(s, r.next), acc) ELSE ParseFail

        ParseElements(s, i, acc) == ElementRead(s, ParseValue(s, i), acc)

        ParseArray(s, i) ==
            IF CharAt(s, SkipWs(s, i + 1)) = "]"
            THEN ParseOk(Arr(<<>>), SkipWs(s, i + 1) + 1)
            ELSE ParseElements(s, i + 1, <<>>)

        \* a later duplicate of a key replaces the earlier one
        AfterMember(s, key, r, sep, acc) ==
            IF CharAt(s, sep) = "," THEN ParseMembers(s, sep + 1, (key :> r.val) @@ acc)
            ELSE IF CharAt(s, sep) = "}" THEN ParseOk(Obj((key :> r.val) @@ acc), sep + 1)
            ELSE ParseFail

        MemberValueRead(s, key, r, acc) ==
            IF r.ok THEN AfterMember(s, key, r, SkipWs(s, r.next), acc) ELSE ParseFail

        MemberKeyRead(s, k, colon, acc) ==
            IF k.ok /\ CharAt(s, colon) = ":"
            THEN MemberValueRead(s, k.val.v, ParseValue(s, colon + 1), acc)
            ELSE ParseFail

        KeyRead(s, k, acc) == MemberKeyRead(s, k, IF k.ok THEN SkipWs(s, k.next) ELSE 0, acc)

        ParseMembers(s, i, acc) == KeyRead(s, ParseString(s, SkipWs(s, i)), acc)

        ParseObject(s, i) ==
            IF CharAt(s, SkipWs(s, i + 1)) = "}"
            THEN ParseOk(Obj(<<>>), SkipWs(s, i + 1) + 1)
            ELSE ParseMembers(s, i + 1, <<>>)

        ValueAt(s, i) ==
            CASE CharAt(s, i) = "{" -> ParseObject(s, i)
              [] CharAt(s, i) = "[" -> ParseArray(s, i)
              [] CharAt(s, i) = "\"" -> ParseString(s, i)
              [] CharAt(s, i) = "t" -> ParseLiteral(s, i, "true", Bool(TRUE))
              [] CharAt(s, i) = "f" -> ParseLiteral(s, i, "false", Bool(FALSE))
              [] CharAt(s, i) = "n" -> ParseLiteral(s, i, "null", Null)
              [] CharAt(s, i) \in Digits \cup {"-"} -> ParseNumber(s, i)
              [] OTHER -> ParseFail

        ParseValue(s, i) == ValueAt(s, SkipWs(s, i))

        \* JSON.parse: one value, then nothing but white space; anything else throws
        WholeText(s, r) ==
            IF r.ok /\ SkipWs(s, r.next) > Len(s) THEN r ELSE ParseFail
    IN  WholeText(text, ParseValue(text, 1))

(***************************************************************************)
(* JavaScript expression semantics used by validateResumeSchema.           *)
(***************************************************************************)
Truthy(x) ==
    CASE x.t = "string" -> x.v # ""
      [] x.t = "number" -> x.v # 0
      [] x.t = "boolean" -> x.v
      [] x.t \in {"null", "undefined"} -> FALSE
      [] OTHER -> TRUE                                  \* arrays and objects

Nullish(x) == x.t \in {"null", "undefined"}

\* x.key for a value x that is not null: own members of a parsed object;
\* strings, numbers, booleans and arrays have none of the keys read here
Get(x, key) ==
    IF x.t = "object" /\ key \in DOMAIN x.v THEN x.v[key] ELSE Undefined

\* a || b
Or(a, b) == IF Truthy(a) THEN a ELSE b

\* x[short] || x[long] || fallback
Pick(x, short, long, fallback) == Or(Or(Get(x, short), Get(x, long)), fallback)

\* thrown Error objects
NoError == [name |-> "", message |-> ""]
TypeError == [name |-> "TypeError", message |-> "Cannot read properties of undefined"]
SyntaxError == [name |-> "SyntaxError", message |-> "Unexpected token in JSON"]
ReferenceError == [name |-> "ReferenceError", message |-> "rawText is not defined"]
NoJsonError == [name |-> "Error", message |-> "No JSON object found in AI response"]

\* the outcome of evaluating something that may throw
Thrown(error) == [threw |-> TRUE, error |-> error, value |-> Undefined]
Returned(value) == [threw |-> FALSE, error |-> NoError, value |-> value]


\* list.map(f) given the outcome of f on every element in order: the first
\* throw ends the map
MapOutcome(outcomes) ==
    IF \E i \in 1..Len(outcomes) : outcomes[i].threw
    THEN Thrown(TypeError)
    ELSE Returned([i \in 1..Len(outcomes) |-> outcomes[i].value] \o <<>>)

(***************************************************************************)
(* validateResumeSchema (utils/ai.js).                                     *)
(***************************************************************************)
validateBullet(b) ==
    IF b.t = "string" THEN Returned([text |-> b, authentic |-> TRUE])
    ELSE IF Nullish(b) THEN Thrown(TypeError)           \* b.tx of null
    ELSE IF Get(b, "tx").t # "undefined"
         THEN Returned([text |-> Get(b, "tx"), authentic |-> ~Truthy(Get(b, "f"))])
    ELSE Returned([text |-> Or(Get(b, "text"), Str("")),
                   authentic |-> ~(Get(b, "authentic").t = "boolean"
                                   /\ Get(b, "authentic").v = FALSE)])

validateResumeSchema(data) ==
    LET
        \* (list).map(f): a TypeError when the value is not an array
        mapValue(list, f(_)) ==
            IF list.t # "array" THEN Thrown(TypeError)
            ELSE MapOutcome([i \in 1..Len(list.v) |-> f(list.v[i])] \o <<>>)

        experienceEntry(exp, bullets) ==
            IF bullets.threw THEN bullets
            ELSE Returned([company |-> Pick(exp, "c", "company", Str("")),
                           title |-> Pick(exp, "t", "title", Str("")),
                           dates |-> Pick(exp, "d", "dates", Str("")),
                           bullets |-> bullets.value])

        validateExperience(exp) ==
            IF Nullish(exp) THEN Thrown(TypeError)              \* exp.c of null
            ELSE experienceEntry(exp,
                    mapValue(Pick(exp, "b", "bullets", Arr(<<>>)), validateBullet))

        validateEducation(ed) ==
            IF Nullish(ed) THEN Thrown(TypeError)               \* ed.i of null
            ELSE Returned([institution |-> Pick(ed, "i", "institution", Str("")),
                           degree |-> Pick(ed, "dg", "degree", Str("")),
                           dates |-> Pick(ed, "d", "dates", Str(""))])

        validateSkills(sk) == IF sk.t = "array" THEN sk.v ELSE <<>>

        resumeRecord(experience, education) ==
            IF experience.threw THEN experience
            ELSE IF education.threw THEN education
            ELSE Returned([name |-> Pick(data, "n", "name", Str("")),
                           email |-> Pick(data, "e", "email", Str("")),
                           phone |-> Pick(data, "ph", "phone", Str("")),
                           location |-> Pick(data, "lo", "location", Str("")),
                           linkedin |-> Pick(data, "li", "linkedin", Str("")),
                           summary |-> Pick(data, "su", "summary", Str("")),
                           experience |-> experience.value,
                           skills |-> validateSkills(Or(Get(data, "sk"), Get(data, "skills"))),
                           education |-> education.value])
    IN  resumeRecord(
            mapValue(Pick(data, "x", "experience", Arr(<<>>)), validateExperience),
            mapValue(Pick(data, "ed", "education", Arr(<<>>)), validateEducation))

(***************************************************************************)
(* parseResumeJSON (utils/ai.js).  The outcome also records the path       *)
(* taken: whether the first JSON.parse returned, and the text the catch    *)
(* block produced when it ran.                                             *)
(***************************************************************************)
\* String.prototype.trim
TrimStart(s) == SubSeq(s, SkipWs(s, 1), Len(s))

TrimEnd(s) ==
    LET LastNonSpace ==
            IF \E j \in 1..Len(s) : Char(s, j) \notin SpaceChars
            THEN CHOOSE j \in 1..Len(s) :
                    /\ Char(s, j) \notin SpaceChars
                    /\ \A k \in (j + 1)..Len(s) : Char(s, k) \in SpaceChars
            ELSE 0
    IN  SubSeq(s, 1, LastNonSpace)

trim(s) == TrimEnd(TrimStart(s))

StartsWith(s, prefix) == Len(s) >= Len(prefix) /\ SubSeq(s, 1, Len(prefix)) = prefix

EndsWith(s, suffix) ==
    Len(s) >= Len(suffix) /\ SubSeq(s, Len(s) - Len(suffix) + 1, Len(s)) = suffix

\* the grave accent, taken out of a quoted pair because the lexer reads a
\* grave accent inside a string as the start of a quotation
Backtick == SubSeq("`'", 1, 1)

Fence == Backtick \o Backtick \o Backtick

stripOpeningFence(s) ==
    LET
        \* the first replace: an opening fence, an optional json (any case) and the
        \* white space after it are dropped
        afterFenceWord ==
            IF StartsWith(toLowerCase(s), Fence \o "json")
            THEN SubSeq(s, Len(Fence) + 5, Len(s))
            ELSE SubSeq(s, Len(Fence) + 1, Len(s))
    IN  IF StartsWith(s, Fence) THEN TrimStart(afterFenceWord) ELSE s

\* the second replace: a closing fence and the white space before it are dropped
stripClosingFence(s) ==
    IF EndsWith(s, Fence) THEN TrimEnd(SubSeq(s, 1, Len(s) - Len(Fence))) ELSE s

\* String.prototype.indexOf / lastIndexOf, zero-based, -1 when absent
indexOf(s, c) ==
    IF \E j \in 1..Len(s) : Char(s, j) = c
    THEN (CHOOSE j \in 1..Len(s) :
            Char(s, j) = c /\ \A k \in 1..(j - 1) : Char(s, k) # c) - 1
    ELSE -1

lastIndexOf(s, c) ==
    IF \E j \in 1..Len(s) : Char(s, j) = c
    THEN (CHOOSE j \in 1..Len(s) :
            Char(s, j) = c /\ \A k \in (j + 1)..Len(s) : Char(s, k) # c) - 1
    ELSE -1

\* String.prototype.slice(start, end) for non-negative arguments
slice(s, start, end) == SubSeq(s, start + 1, end)

\* the replace of the catch block: every such comma is dropped
removeTrailingCommas(s) ==
    LET
        \* a comma followed, after any white space, by a closing brace or bracket
        TrailingComma(i) ==
            Char(s, i) = "," /\ CharAt(s, SkipWs(s, i + 1)) \in {"}", "]"}

        KeptPositions == SelectSeq([i \in 1..Len(s) |-> i] \o <<>>, LAMBDA i : ~TrailingComma(i))
    IN  Concat([k \in 1..Len(KeptPositions) |-> Char(s, KeptPositions[k])] \o <<>>)

ParseOutcome(outcome, strictParsed, repaired, fixed) ==
    [threw |-> outcome.threw, error |-> outcome.error, value |-> outcome.value,
     strictParsed |-> strictParsed, repaired |-> repaired, fixed |-> fixed]

parseObjectText(text) ==
    LET
        \* the catch block: repair, parse again, expand; whatever throws propagates
        secondParse(fixed, parsed, strictParsed) ==
            IF parsed.ok
            THEN ParseOutcome(validateResumeSchema(parsed.val), strictParsed, TRUE, fixed)
            ELSE ParseOutcome(Thrown(SyntaxError), strictParsed, TRUE, fixed)

        repairAndParse(fixed, strictParsed) ==
            secondParse(fixed, JSONparse(fixed), strictParsed)

        \* the try block: JSON.parse and validateResumeSchema; a throw of either is caught
        firstExpanded(outcome) ==
            IF outcome.threw
            THEN repairAndParse(removeTrailingCommas(text), TRUE)
            ELSE ParseOutcome(outcome, TRUE, FALSE, text)

        firstParse(parsed) ==
            IF parsed.ok
            THEN firstExpanded(validateResumeSchema(parsed.val))
            ELSE repairAndParse(removeTrailingCommas(text), FALSE)
    IN  firstParse(JSONparse(text))

findObjectLenient(text, start, end) ==
    IF start = -1 \/ end = -1
    THEN parseObjectText("{}")
    ELSE parseObjectText(slice(text, start, end + 1))

findObject(text, start, end) ==
    IF start = -1 \/ end = -1
    THEN ParseOutcome(Thrown(NoJsonError), FALSE, FALSE, "")
    ELSE parseObjectText(slice(text, start, end + 1))

parseResumeJSON(rawText) ==
    LET
        locateObject(text) == findObject(text, indexOf(text, "{"), lastIndexOf(text, "}"))
    IN  locateObject(stripClosingFence(stripOpeningFence(trim(rawText))))

(***************************************************************************)
(* parseGeminiError (utils/ai.js): the structured error made from the      *)
(* message of an SDK failure.                                              *)
(***************************************************************************)
Join(items, sep) ==
    Concat([k \in 1..Len(items) |-> IF k = 1 THEN items[k] ELSE sep \o items[k]] \o <<>>)

\* String.prototype.includes
includes(s, sub) ==
    \E i \in 1..(Len(s) - Len(sub) + 1) : SubSeq(s, i, i + Len(sub) - 1) = sub

\* a slip: no delay is ever read from the message
retryMatchNone(msg) ==
    [found |-> FALSE, whole |-> 0, nonzeroFraction |-> FALSE, next |-> 0]

\* msg.match(first pattern) || msg.match(second pattern): the leftmost
\* match of a pattern, found by trying each place its fixed beginning
\* occurs; a match is [found, whole, nonzeroFraction, next]
retryMatch(msg) ==
    LET
        NoMatch == [found |-> FALSE, whole |-> 0, nonzeroFraction |-> FALSE, next |-> 0]

        \* positions at which sub starts in s
        Occurrences(s, sub) ==
            SelectSeq([i \in 1..Len(s) |-> i],
                      LAMBDA i : /\ i + Len(sub) - 1 <= Len(s)
                                 /\ SubSeq(s, i, i + Len(sub) - 1) = sub)

        \* index of the first digit at or after i, or past the end
        SkipNonDigits(i) ==
            IF \E j \in i..Len(msg) : Char(msg, j) \in Digits
            THEN CHOOSE j \in i..Len(msg) :
                    /\ Char(msg, j) \in Digits
                    /\ \A k \in i..(j - 1) : Char(msg, k) \notin Digits
            ELSE Len(msg) + 1

        \* digits from index i that end before index e, an optional fraction
        \* that ends before index f, and an s: the number with its fraction
        \* when an s follows it, else the whole part when an s follows that
        SecondsWithFraction(i, e, f) ==
            IF CharAt(msg, e) = "." /\ f > e + 1 /\ CharAt(msg, f) \in {"s", "S"}
            THEN [found |-> TRUE, whole |-> DigitsToInt(msg, i, e - 1),
                  nonzeroFraction |-> \E k \in (e + 1)..(f - 1) : Char(msg, k) # "0",
                  next |-> f + 1]
            ELSE IF CharAt(msg, e) \in {"s", "S"}
            THEN [found |-> TRUE, whole |-> DigitsToInt(msg, i, e - 1),
                  nonzeroFraction |-> FALSE, next |-> e + 1]
            ELSE NoMatch

        SecondsFrom(i, e) == SecondsWithFraction(i, e, DigitsEnd(msg, e + 1))

        SecondsAt(i) ==
            IF CharAt(msg, i) \in Digits THEN SecondsFrom(i, DigitsEnd(msg, i)) ELSE NoMatch

        FirstFound(matches) ==
            IF \E k \in 1..Len(matches) : matches[k].found
            THEN matches[CHOOSE k \in 1..Len(matches) :
                            matches[k].found /\ \A j \in 1..(k - 1) : ~matches[j].found]
            ELSE NoMatch

        MatchesAt(starts, matchAt(_)) ==
            [k \in 1..Len(starts) |-> matchAt(starts[k])] \o <<>>

        \* the first pattern: retry (any case), then no digit, then the seconds
        retryPhraseMatch ==
            FirstFound(MatchesAt(Occurrences(toLowerCase(msg), "retry"),
                                 LAMBDA p : SecondsAt(SkipNonDigits(p + 5))))

        QuotedSeconds(m) ==
            IF m.found /\ CharAt(msg, m.next) = "\"" THEN m ELSE NoMatch

        DelayValueAt(colon) ==
            IF CharAt(msg, colon) = ":" /\ CharAt(msg, SkipWs(msg, colon + 1)) = "\""
            THEN QuotedSeconds(SecondsAt(SkipWs(msg, colon + 1) + 1))
            ELSE NoMatch

        \* the second pattern: the quoted retryDelay key, a colon and the
        \* quoted seconds
        retryDelayMatch ==
            FirstFound(MatchesAt(Occurrences(toLowerCase(msg), "\"retrydelay\""),
                                 LAMBDA p : DelayValueAt(SkipWs(msg, p + 12))))
    IN  IF retryPhraseMatch.found THEN retryPhraseMatch ELSE retryDelayMatch

\* a slip: the server-error test stands before the key and permission tests
statusErrorServerFirst(keyMarked, permissionMarked, serverMarked, excerpt) ==
    IF serverMarked
    THEN [code |-> "SERVER_ERROR",
          message |-> "Gemini server error. Try again in a moment."]
    ELSE IF keyMarked
    THEN [code |-> "INVALID_KEY",
          message |-> "Invalid API key. Check your key in Settings."]
    ELSE IF permissionMarked
    THEN [code |-> "PERMISSION",
          message |-> "API key doesn't have Gemini access. Make sure you've enabled "
                      \o "the Generative Language API in your Google Cloud project."]
    ELSE [code |-> "UNKNOWN", message |-> "AI error: " \o excerpt]

\* the tests that follow the quota test, given what msg.includes answered
\* for the markers of each and the text of msg.slice(0, 100)
statusError(keyMarked, permissionMarked, serverMarked, excerpt) ==
    IF keyMarked
    THEN [code |-> "INVALID_KEY",
          message |-> "Invalid API key. Check your key in Settings."]
    ELSE IF permissionMarked
    THEN [code |-> "PERMISSION",
          message |-> "API key doesn't have Gemini access. Make sure you've enabled "
                      \o "the Generative Language API in your Google Cloud project."]
    ELSE IF serverMarked
    THEN [code |-> "SERVER_ERROR",
          message |-> "Gemini server error. Try again in a moment."]
    ELSE [code |-> "UNKNOWN", message |-> "AI error: " \o excerpt]

\* the classification of a message that is a string
classifyMessage(msg) ==
    LET
        \* Math.ceil(parseFloat(retryMatch[1])), or 60 without a match
        retrySeconds(m) ==
            IF m.found THEN m.whole + (IF m.nonzeroFraction THEN 1 ELSE 0) ELSE 60

        quotaError(seconds) ==
            IF includes(msg, "PerDay") \/ includes(msg, "per_day") \/ includes(msg, "RPD")
            THEN [code |-> "DAILY_LIMIT",
                  message |-> "You've used all your free Gemini requests for today. "
                              \o "Your quota resets at midnight Pacific Time. You can also "
                              \o "enable billing on your Google AI project for higher limits.",
                  retryAfter |-> Null]
            ELSE [code |-> "RATE_LIMIT",
                  message |-> "Gemini rate limit hit. Wait " \o ToString(seconds)
                              \o " seconds and try again.",
                  retryAfter |-> Num(seconds)]
    IN  IF includes(msg, "429") \/ includes(msg, "RESOURCE_EXHAUSTED") \/ includes(msg, "quota")
        THEN quotaError(retrySeconds(retryMatch(msg)))
        ELSE statusError(
                includes(msg, "401") \/ includes(msg, "API_KEY_INVALID")
                    \/ includes(msg, "invalid api key"),
                includes(msg, "403") \/ includes(msg, "PERMISSION_DENIED"),
                includes(msg, "500") \/ includes(msg, "INTERNAL"),
                SubSeq(msg, 1, IF Len(msg) < 100 THEN Len(msg) ELSE 100))

\* an Error object: message is its own property, String(err) is made from
\* its name and message
ErrorOf(name, message) ==
    [t |-> "error", v |-> [name |-> Str(name), message |-> Str(message)]]

\* String(x) for the values a failure or its message can be
RECURSIVE StringOf(_)
StringOf(x) ==
    CASE x.t = "string" -> x.v
      [] x.t = "number" -> ToString(x.v)
      [] x.t = "boolean" -> IF x.v THEN "true" ELSE "false"
      [] x.t = "null" -> "null"
      [] x.t = "undefined" -> "undefined"
      [] x.t = "error" ->
            IF x.v.message.v = "" THEN x.v.name.v
            ELSE IF x.v.name.v = "" THEN x.v.message.v
            ELSE x.v.name.v \o ": " \o x.v.message.v
      [] x.t = "array" ->
            Join([i \in 1..Len(x.v) |->
                     IF Nullish(x.v[i]) THEN "" ELSE StringOf(x.v[i])] \o <<>>, ",")
      [] OTHER -> "[object Object]"

\* const msg = err?.message || String(err), then the tests on msg.  A
\* string answers includes, match and slice; an array answers includes and
\* slice but has no match; any other truthy message has no includes
parseGeminiError(err) ==
    LET
        message ==
            IF err.t \in {"object", "error"} /\ "message" \in DOMAIN err.v
            THEN err.v["message"]
            ELSE Undefined
        msg == Or(message, Str(StringOf(err)))
        hasItem(x) == \E i \in 1..Len(msg.v) : msg.v[i] = Str(x)
    IN  IF msg.t = "string" THEN Returned(classifyMessage(msg.v))
        ELSE IF msg.t # "array"
        THEN Thrown([name |-> "TypeError", message |-> "msg.includes is not a function"])
        ELSE IF hasItem("429") \/ hasItem("RESOURCE_EXHAUSTED") \/ hasItem("quota")
        THEN Thrown([name |-> "TypeError", message |-> "msg.match is not a function"])
        ELSE Returned(statusError(
                hasItem("401") \/ hasItem("API_KEY_INVALID") \/ hasItem("invalid api key"),
                hasItem("403") \/ hasItem("PERMISSION_DENIED"),
                hasItem("500") \/ hasItem("INTERNAL"),
                StringOf(Arr(SubSeq(msg.v, 1, IF Len(msg.v) < 100 THEN Len(msg.v) ELSE 100)))))

(***************************************************************************)
(* buildUserPrompt (utils/prompts.js) and tailorResume (utils/ai.js).      *)
(* generateContent is the external collaborator: gen is what it does when  *)
(* called, a reply text or a failure.                                      *)
(***************************************************************************)
\* jdKeywords.filter and missingKeywords.length read a property of the
\* argument: a TypeError when the argument is undefined
buildUserPrompt(baseResume, jobDescription, missingKeywords, jdKeywords) ==
    LET
        Strings(list) == [k \in 1..Len(list.v) |-> list.v[k].v] \o <<>>

        keywordsSection(phrases, tokens) ==
            IF Len(phrases) + Len(tokens) > 0
            THEN "\nKEY SKILLS AND CONCEPTS FROM THIS JOB\n"
                 \o (IF Len(phrases) > 0 THEN "  Skill phrases: " \o Join(phrases, ", ") ELSE "")
                 \o "\n"
                 \o (IF Len(tokens) > 0 THEN "  Technologies/tools: " \o Join(tokens, ", ") ELSE "")
            ELSE ""

        missingSection(missing) ==
            IF Len(missing) > 0
            THEN "\nSKILLS IN THE JD NOT DETECTED IN THE BASE RESUME:\n" \o Join(missing, ", ")
            ELSE ""
    IN  IF Nullish(jdKeywords) \/ Nullish(missingKeywords)
        THEN Thrown(TypeError)
        ELSE Returned("BASE RESUME:\n" \o baseResume
                      \o "\n\nJOB DESCRIPTION:\n" \o jobDescription \o "\n"
                      \o keywordsSection(
                            SelectSeq(Strings(jdKeywords), LAMBDA k : includes(k, " ")),
                            SelectSeq(Strings(jdKeywords), LAMBDA k : ~includes(k, " ")))
                      \o "\n" \o missingSection(Strings(missingKeywords))
                      \o "\n\nNow output the tailored resume as a single JSON object.")

\* buildUserPrompt is called with baseResume and jobDescription only
tailorResume(apiKey, baseResume, jobDescription, preferenceSummary, gen) ==
    LET
        \* after generateContent: its failure is classified and thrown; after its
        \* reply the function reads rawText, a name that is declared nowhere
        \* throw parseGeminiError(err): what it returns is thrown, and what
        \* it throws propagates
        thrownClassified(outcome) ==
            IF outcome.threw THEN outcome ELSE Thrown(outcome.value)

        afterGenerate ==
            IF gen.kind = "error"
            THEN thrownClassified(
                    parseGeminiError(ErrorOf(gen.error.name, gen.error.message)))
            ELSE Thrown(ReferenceError)

        promptBuilt(userPrompt) ==
            IF userPrompt.threw THEN userPrompt ELSE afterGenerate
    IN  promptBuilt(buildUserPrompt(baseResume, jobDescription, Undefined, Undefined))

(***************************************************************************)
(* background.js: the message router and the TAILOR_RESUME case.           *)
(***************************************************************************)
\* .then(result => {success: true, data: result}) / .catch(err => ...)
sendResponse(outcome) ==
    LET
        \* typeof err === 'object' && err.code ? err : {code: 'UNKNOWN', message}
        routerError(err) ==
            IF "code" \in DOMAIN err THEN err
            ELSE [code |-> "UNKNOWN", message |-> err.message]
    IN  IF outcome.threw
        THEN [success |-> FALSE, error |-> routerError(outcome.error)]
        ELSE [success |-> TRUE, data |-> outcome.value]

NoKeyError ==
    [code |-> "NO_KEY", message |-> "No API key found. Complete setup in Settings."]

NoResumeError ==
    [code |-> "NO_RESUME",
     message |-> "No base resume found. Upload your resume in Settings."]

\* return { resume: result }
tailorResult(outcome) ==
    IF outcome.threw THEN outcome ELSE Returned([resume |-> outcome.value])

(***************************************************************************)
(* utils/memory.js: the career memory kept under one storage key.  The     *)
(* record is [sessions, aggregate]; summaryBuiltAt and preferenceSummary   *)
(* are JavaScript values, because the code reads them with || and stores   *)
(* null; the other fields are numbers, strings, lists and maps.            *)
(***************************************************************************)
SUMMARY_REBUILD_EVERY == 5

\* the elements visited by a loop over lists nested in a loop over the list
RECURSIVE Flatten(_)
Flatten(lists) ==
    IF Len(lists) = 0 THEN <<>> ELSE Flatten(SubSeq(lists, 1, Len(lists) - 1)) \o lists[Len(lists)]

defaultMemory ==
    [sessions |-> <<>>,
     aggregate |-> [totalSessions |-> 0,
                    targetRoles |-> [role \in {} |-> 0],
                    topKeywords |-> <<>>,
                    topBulletVerbs |-> <<>>,
                    avgBulletLen |-> 0,
                    preferenceSummary |-> Null,
                    summaryBuiltAt |-> Num(0)]]

\* result[STORAGE_KEY] || defaultMemory(): stored is null when the key is absent
readMemory(stored) == IF stored = Null THEN defaultMemory ELSE stored

\* Math.round(sum / count) for a non-negative sum and a positive count
RoundedMean(sum, count) == (2 * sum + count) \div (2 * count)

\* a slip: the summary is due only after more than five new sessions
shouldRebuildSummaryStrict(aggregate) ==
    LET summaryBuiltAt ==
            IF "summaryBuiltAt" \in DOMAIN aggregate
            THEN aggregate.summaryBuiltAt ELSE Undefined
        sessionsSinceLastBuild == aggregate.totalSessions - Or(summaryBuiltAt, Num(0)).v
    IN  sessionsSinceLastBuild > SUMMARY_REBUILD_EVERY /\ aggregate.totalSessions >= 2

shouldRebuildSummary(aggregate) ==
    LET summaryBuiltAt ==
            IF "summaryBuiltAt" \in DOMAIN aggregate
            THEN aggregate.summaryBuiltAt ELSE Undefined
        sessionsSinceLastBuild == aggregate.totalSessions - Or(summaryBuiltAt, Num(0)).v
    IN  sessionsSinceLastBuild >= SUMMARY_REBUILD_EVERY /\ aggregate.totalSessions >= 2

\* a slip: the sorted entries are not cut
topOfUncut(lists, limit) ==
    LET all == Flatten(lists)
        count(key) == Cardinality({i \in 1..Len(all) : all[i] = key})
        first(key) == CHOOSE i \in 1..Len(all) :
                          all[i] = key /\ \A j \in 1..(i - 1) : all[j] # key
        keys == SeqToSet(all)
        before(a, b) ==
            count(a) > count(b) \/ (count(a) = count(b) /\ first(a) < first(b))
        rank(key) == Cardinality({other \in keys : before(other, key)}) + 1
    IN  [r \in 1..Cardinality(keys) |-> CHOOSE key \in keys : rank(key) = r]

\* the entries of a frequency object filled from the lists, in the order the
\* keys were first set, sorted by count (the sort is stable), cut to the
\* first limit keys
topOf(lists, limit) ==
    LET all == Flatten(lists)
        count(key) == Cardinality({i \in 1..Len(all) : all[i] = key})
        first(key) == CHOOSE i \in 1..Len(all) :
                          all[i] = key /\ \A j \in 1..(i - 1) : all[j] # key
        keys == SeqToSet(all)
        before(a, b) ==
            count(a) > count(b) \/ (count(a) = count(b) /\ first(a) < first(b))
        rank(key) == Cardinality({other \in keys : before(other, key)}) + 1
        sorted == [r \in 1..Cardinality(keys) |-> CHOOSE key \in keys : rank(key) = r]
    IN  SubSeq(sorted, 1, IF Len(sorted) < limit THEN Len(sorted) ELSE limit)

\* a slip: the summary position is reset with every recomputation
rebuildAggregateResetting(sessions, prevAggregate) ==
    [defaultMemory.aggregate EXCEPT !.totalSessions = Len(sessions)]

rebuildAggregate(sessions, prevAggregate) ==
    LET
        roles == {sessions[i].targetRole : i \in 1..Len(sessions)} \ {""}

        RECURSIVE sumLen(_)
        sumLen(n) ==
            IF n = 0 THEN 0
            ELSE sumLen(n - 1)
                   + (IF sessions[n].avgBulletLen = 0 THEN 18 ELSE sessions[n].avgBulletLen)
    IN  [totalSessions |-> Len(sessions),
         targetRoles |->
            [role \in roles |->
                Cardinality({i \in 1..Len(sessions) : sessions[i].targetRole = role})],
         topKeywords |-> topOf([i \in 1..Len(sessions) |-> sessions[i].keywordsUsed], 20),
         topBulletVerbs |-> topOf([i \in 1..Len(sessions) |-> sessions[i].bulletVerbs], 10),
         avgBulletLen |->
            IF Len(sessions) > 0 THEN RoundedMean(sumLen(Len(sessions)), Len(sessions))
            ELSE 18,
         preferenceSummary |-> prevAggregate.preferenceSummary,
         summaryBuiltAt |-> prevAggregate.summaryBuiltAt]

\* the first word of every bullet that is longer than one character and
\* starts with a capital letter, without repetitions
extractBulletVerbs(resume) ==
    LET texts == Flatten([j \in 1..Len(resume.experience) |->
                    [b \in 1..Len(resume.experience[j].bullets) |->
                        resume.experience[j].bullets[b].text]])
        firstWord(text) == splitWhitespace(trim(text))[1]
        isVerb(word) == Len(word) > 1 /\ Char(word, 1) \in UpperLetters
        verbs == SelectSeq([b \in 1..Len(texts) |-> firstWord(texts[b])], isVerb)
        isFirst(i) == \A j \in 1..(i - 1) : verbs[j] # verbs[i]
    IN  [k \in 1..Len(SelectSeq([i \in 1..Len(verbs) |-> i], isFirst)) |->
            verbs[SelectSeq([i \in 1..Len(verbs) |-> i], isFirst)[k]]]

\* the mean number of words of the bullets, rounded; 18 without bullets
calcAvgBulletLen(resume) ==
    LET texts == Flatten([j \in 1..Len(resume.experience) |->
                    [b \in 1..Len(resume.experience[j].bullets) |->
                        resume.experience[j].bullets[b].text]])
        RECURSIVE words(_)
        words(n) ==
            IF n = 0 THEN 0 ELSE words(n - 1) + Len(splitWhitespace(trim(texts[n])))
    IN  IF Len(texts) = 0 THEN 18 ELSE RoundedMean(words(Len(texts)), Len(texts))

(***************************************************************************)
(* The texts the analysis is run on.  A job description is up to           *)
(* MaxJobLines lines drawn from JobLines; the base resume is one of        *)
(* Resumes.                                                                *)
(***************************************************************************)
FortySkillsLine ==
    "Python Java JavaScript TypeScript Rust Kotlin Swift PHP Ruby Scala "
    \o "MATLAB Dart HTML CSS React Angular GraphQL Algorithms Microservices "
    \o "Debugging Docker Kubernetes Jenkins Terraform Linux Monitoring Logging "
    \o "Observability AWS SQL PostgreSQL MySQL MongoDB Redis Kafka Airflow "
    \o "TensorFlow PyTorch MLOps OAuth"

TwentyThreeSkillsResume ==
    "Python Java JavaScript TypeScript Rust Kotlin Swift PHP Ruby Scala "
    \o "MATLAB Dart HTML CSS React Angular GraphQL Algorithms Microservices "
    \o "Debugging Docker Kubernetes Jenkins"

JobLines ==
    <<"Python, Java and SQL.",
      "Machine",
      "learning",
      "c++ and node.js for a proof of concept",
      "Strong Communication with the teams",
      "Docker Kubernetes AWS Linux Redis",
      FortySkillsLine>>

Resumes ==
    {"",
     "Java developer: C++, Node.js, proof of concept.",
     "Python and Docker; LEARNING about machine tools. Communication, team player",
     TwentyThreeSkillsResume}

NumLines(text) == IF text = "" THEN 0 ELSE Len(split(text, "\n"))

NoHistory ==
    [lastWrite |-> [op |-> "", read |-> Null, sessionId |-> 0, stored |-> Null],
     recorded |-> <<>>,
     summaryWritten |-> Null,
     launches |-> {},
     wrote |-> {},
     lastAnswer |-> Null,
     cleared |-> FALSE]

\* the parts of the extension a specification leaves at rest: every part but
\* the busy ones is as it is before its first message
Idle(busy) ==
    /\ IF "kw" \in busy THEN TRUE
       ELSE kwResume = "" /\ kwJob = "" /\ keywordAnalysis = Null
    /\ IF "parse" \in busy THEN TRUE
       ELSE replyText = "" /\ normalized = Null
    /\ IF "tailor" \in busy THEN TRUE
       ELSE /\ settings = [ros_apiKey |-> "", ros_baseResume |-> ""]
            /\ memorySummary = Null
            /\ tailorPc = "idle"
            /\ tailorData = Null
            /\ genOutcome = Null
            /\ tailorResponse = Null
    /\ IF "classify" \in busy THEN TRUE
       ELSE signal = Null /\ classified = Null
    /\ IF "due" \in busy THEN TRUE
       ELSE aggregateArg = Null /\ rebuildDue = Null
    /\ IF "memory" \in busy THEN TRUE
       ELSE /\ store = Null
            /\ clock = 0
            /\ calls = {}
            /\ started = 0
            /\ history = NoHistory
    /\ IF "panel" \in busy THEN TRUE
       ELSE /\ panelState = [currentJob |-> Null, pendingResume |-> Null]
            /\ els = [tailorBtn |-> [disabled |-> TRUE],
                      tailorBtnSection |-> [hidden |-> FALSE],
                      keywordSection |-> [hidden |-> TRUE],
                      loadingState |-> [hidden |-> TRUE],
                      previewState |-> [hidden |-> TRUE],
                      downloadBtn |-> [disabled |-> FALSE],
                      errorState |-> [hidden |-> TRUE],
                      errorMsg |-> [textContent |-> ""],
                      errorRetryBtn |-> [hidden |-> FALSE, disabled |-> FALSE,
                                         textContent |-> "Try Again"]]
            /\ timers = <<>>
            /\ inFlight = Null
            /\ panelLog = [shown |-> Null, recorded |-> Null]
    /\ IF "content" \in busy THEN TRUE
       ELSE /\ location = [hostname |-> "", href |-> ""]
            /\ jobInDom = FALSE
            /\ lastExtractedUrl = Null
            /\ debounceTimer = FALSE
            /\ retryTimers = {}
            /\ sentMessages = <<>>
            /\ failedUrls = {}


KwInit ==
    /\ kwResume \in Resumes
    /\ kwJob = ""
    /\ keywordAnalysis = Null
    /\ Idle({"kw"})

\* sidepanel: the job text changes and runKeywordAnalysis stores the analysis,
\* shows it and enables the Tailor button
RunKeywordAnalysis ==
    /\ NumLines(kwJob) < MaxJobLines
    /\ \E k \in 1..Len(JobLines) :
          /\ kwJob' = IF kwJob = "" THEN JobLines[k] ELSE kwJob \o "\n" \o JobLines[k]
          /\ keywordAnalysis' =
                IF kwResume = ""
                THEN keywordAnalysis      \* no base resume: returns early
                ELSE analyzeKeywords(kwJob', kwResume)
    /\ els' = [els EXCEPT !.tailorBtn.disabled = FALSE,
                          !.keywordSection.hidden = IF kwResume = "" THEN @ ELSE FALSE]
    /\ UNCHANGED <<kwResume, panelState, timers, inFlight, panelLog, parseVars, tailorVars,
                   classifyVars, dueVars, memoryVars, contentVars>>

KwNext == RunKeywordAnalysis

SpecKw == KwInit /\ [][KwNext]_vars

(***************************************************************************)
(* The replies parseResumeJSON is run on: a JSON-like body, alone or       *)
(* inside a preamble, a markdown fence or trailing white space.            *)
(***************************************************************************)
Quoted(s) == "\"" \o s \o "\""

Member(key, valueText) == Quoted(key) \o ":" \o valueText

ObjectOf(members) == "{" \o Join(members, ",") \o "}"

ListOf(items) == "[" \o Join(items, ",") \o "]"

SpecExample ==
    ObjectOf(<<Member("n", Quoted("Ada")),
               Member("x", ListOf(<<ObjectOf(<<Member("c", Quoted("IBM")),
                                               Member("b", ListOf(<<Quoted("Did a thing")>>))>>)>>))>>)

Bodies ==
    LET
        \* the members whose value text is not empty
        Present(members) == SelectSeq(members, LAMBDA m : m # "")

        OptionalMember(key, valueText) == IF valueText = "" THEN "" ELSE Member(key, valueText)

        ShortNameTexts == {"", Quoted("Ada"), Quoted(""), "5", "null"}
        LongNameTexts == {"", Quoted("Bob"), Quoted(""), "7"}

        ScalarBodies ==
            {ObjectOf(Present(<<OptionalMember("n", a), OptionalMember("name", b)>>)) :
                a \in ShortNameTexts, b \in LongNameTexts}

        ShortEntry ==
            ObjectOf(<<Member("c", Quoted("IBM")), Member("t", Quoted("Dev")),
                       Member("d", Quoted("2020")), Member("i", Quoted("MIT")),
                       Member("dg", Quoted("BSc"))>>)

        LongEntry ==
            ObjectOf(<<Member("company", Quoted("IBM")), Member("title", Quoted("Dev")),
                       Member("dates", Quoted("2020")), Member("institution", Quoted("MIT")),
                       Member("degree", Quoted("BSc"))>>)

        ListKeys == {"x", "experience", "ed", "education", "sk", "skills"}

        ListTexts ==
            {"[]", Quoted("abc"), "5", "null", "{}", "[null]",
             ListOf(<<Quoted("Go"), Quoted("SQL")>>),
             ListOf(<<ShortEntry>>),
             ListOf(<<LongEntry>>),
             ListOf(<<ObjectOf(<<Member("c", Quoted("")), Member("company", Quoted("IBM"))>>)>>),
             ListOf(<<ObjectOf(<<Member("b", "5")>>)>>),
             ListOf(<<"7", ShortEntry>>)}

        ListBodies == {ObjectOf(<<Member(k, v)>>) : k \in ListKeys, v \in ListTexts}

        BulletKeys == {"b", "bullets"}

        BulletTexts ==
            {Quoted("Did a thing"), Quoted(""),
             ObjectOf(<<Member("tx", Quoted("Led")), Member("f", "1")>>),
             ObjectOf(<<Member("tx", Quoted("Led")), Member("f", "0")>>),
             ObjectOf(<<Member("tx", Quoted("Led"))>>),
             ObjectOf(<<Member("tx", Quoted("Led")), Member("authentic", "false")>>),
             ObjectOf(<<Member("text", Quoted("Led")), Member("authentic", "false")>>),
             ObjectOf(<<Member("text", Quoted("Led")), Member("authentic", "true")>>),
             ObjectOf(<<Member("text", Quoted("Led")), Member("authentic", Quoted("false"))>>),
             ObjectOf(<<Member("text", Quoted("Led"))>>),
             ObjectOf(<<Member("text", Quoted("Led")), Member("f", "1")>>),
             ObjectOf(<<Member("tx", "5")>>),
             ObjectOf(<<Member("tx", "null"), Member("f", "true")>>),
             "null", "5", "true", "[]", "{}"}

        BulletBodies ==
            {ObjectOf(<<Member("x",
                ListOf(<<ObjectOf(<<Member("c", Quoted("IBM")),
                                    Member(k, ListOf(<<b, Quoted("Shipped it")>>))>>)>>))>>) :
                k \in BulletKeys, b \in BulletTexts}

        OtherBodies ==
            {SpecExample,
             "{}",
             "{ \"n\" : \"Ada\" ,\n  \"sk\" : [ \"Go\" , \"SQL\" ] }",
             "{\"n\":\"Ada\",}",
             "{\"sk\":[\"Go\",\"SQL\", ],\n}",
             "{\"x\":[{\"c\":\"IBM\",\"b\":[\"Did a thing\",],},],}",
             "{\"n\":\"Ada\",,}",
             "{\"sk\":[,]}",
             "{\"n\":\"a,]\"}",
             "{\"n\":\"a,]\",}",
             "{\"x\":[null],\"n\":\"a, }\"}",
             "{\"ed\":7,\"su\":\"x,]\"}",
             "{\"n\":\"Ada\",\"n\":\"Eve\"}",
             "{\"n\":\"say \\\"hi\\\"\"}",
             "{n:\"Ada\"}",
             "{\"n\":\"Ada\"",
             "\"n\":\"Ada\"}",
             "[\"Ada\"]",
             "No resume could be produced.",
             "",
             "} {",
             "}{\"n\":\"Ada\"",
             "{\"n\":\"Ada\"} and {\"n\":\"Eve\"}",
             Fence \o "JSON{\"n\":\"Ada\"}" \o Fence}
    IN  ScalarBodies \cup ListBodies \cup BulletBodies \cup OtherBodies

Replies ==
    LET
        Prefixes == {"", Fence \o "json\n", "Here is the resume:\n"}

        Suffixes == {"", "\n" \o Fence, " \n"}
    IN  {p \o b \o s : p \in Prefixes, b \in Bodies, s \in Suffixes}

ParseInit ==
    /\ replyText \in Replies
    /\ normalized = Null
    /\ Idle({"parse"})

\* parseResumeJSON is applied to the reply
NormalizeReply ==
    /\ normalized = Null
    /\ normalized' = parseResumeJSON(replyText)
    /\ UNCHANGED <<replyText, kwVars, tailorVars, classifyVars, dueVars, memoryVars, panelVars, contentVars>>

SpecParse == ParseInit /\ [][NormalizeReply]_vars

(***************************************************************************)
(* The TAILOR_RESUME requests: the stored settings and the career-memory   *)
(* summary are fixed at the start; every request carries a job description *)
(* and meets a collaborator that replies with a text or fails.             *)
(***************************************************************************)
ApiKeys == {"", "AIza-test-key"}

GenOutcomes ==
    LET
        GenText(text) == [kind |-> "text", text |-> text, error |-> NoError]

        GenError(message) ==
            [kind |-> "error", text |-> "", error |-> [name |-> "Error", message |-> message]]
    IN  {GenText(SpecExample),
         GenText(Fence \o "json\n" \o SpecExample \o "\n" \o Fence),
         GenText("Here is the resume:\n" \o ObjectOf(<<Member("name", Quoted("Ada"))>>)),
         GenText("{}"),
         GenText("No resume could be produced."),
         GenError("[429 Too Many Requests] Quota exceeded. Please retry in 53.8s."),
         GenError("[429 Too Many Requests] GenerateRequestsPerDayPerProject exceeded"),
         GenError("[400 Bad Request] API_KEY_INVALID"),
         GenError("[403 Forbidden] PERMISSION_DENIED"),
         GenError("[500 Internal Server Error] INTERNAL"),
         GenError("fetch failed")}

TailorInit ==
    /\ settings \in [ros_apiKey : ApiKeys,
                      ros_baseResume : {"", "Ada Lovelace. Built the first program at IBM."}]
    /\ memorySummary \in {Null, Str("Prefers short bullets that start with a verb.")}
    /\ tailorPc = "idle"
    /\ tailorData = Null
    /\ genOutcome = Null
    /\ tailorResponse = Null
    /\ Idle({"tailor"})

\* the side panel sends TAILOR_RESUME; the router calls handleMessage
ReceiveTailorRequest ==
    /\ tailorPc \in {"idle", "done"}
    /\ \E jd \in {"Python developer for data pipelines", "Team lead, Kubernetes"} :
          tailorData' = [jobDescription |-> jd]
    /\ genOutcome' \in GenOutcomes
    /\ tailorResponse' = Null
    /\ tailorPc' = "settings"
    /\ UNCHANGED <<settings, memorySummary, kwVars, parseVars, classifyVars, dueVars, memoryVars, panelVars, contentVars>>

\* a slip: the base resume is checked before the key
CheckSettingsResumeFirst ==
    /\ tailorPc = "settings"
    /\ IF settings.ros_baseResume = ""
       THEN tailorResponse' = sendResponse(Thrown(NoResumeError)) /\ tailorPc' = "done"
       ELSE IF settings.ros_apiKey = ""
       THEN tailorResponse' = sendResponse(Thrown(NoKeyError)) /\ tailorPc' = "done"
       ELSE tailorResponse' = tailorResponse /\ tailorPc' = "memory"
    /\ UNCHANGED <<settings, memorySummary, tailorData, genOutcome, kwVars, parseVars, classifyVars, dueVars, memoryVars, panelVars, contentVars>>

\* chromeStorageGet and the two checks of the stored settings
CheckSettings ==
    /\ tailorPc = "settings"
    /\ IF settings.ros_apiKey = ""
       THEN tailorResponse' = sendResponse(Thrown(NoKeyError)) /\ tailorPc' = "done"
       ELSE IF settings.ros_baseResume = ""
       THEN tailorResponse' = sendResponse(Thrown(NoResumeError)) /\ tailorPc' = "done"
       ELSE tailorResponse' = tailorResponse /\ tailorPc' = "memory"
    /\ UNCHANGED <<settings, memorySummary, tailorData, genOutcome, kwVars, parseVars, classifyVars, dueVars, memoryVars, panelVars, contentVars>>

\* readMemory: the preference summary of the aggregate is read
ReadMemory ==
    /\ tailorPc = "memory"
    /\ tailorPc' = "tailor"
    /\ UNCHANGED <<settings, memorySummary, tailorData, genOutcome, tailorResponse,
                   kwVars, parseVars, classifyVars, dueVars, memoryVars, panelVars, contentVars>>

\* tailorResume runs to its end and the router sends the response
CallTailorResume ==
    /\ tailorPc = "tailor"
    /\ tailorResponse' =
          sendResponse(tailorResult(
              tailorResume(settings.ros_apiKey, settings.ros_baseResume,
                           tailorData.jobDescription, memorySummary, genOutcome)))
    /\ tailorPc' = "done"
    /\ UNCHANGED <<settings, memorySummary, tailorData, genOutcome, kwVars, parseVars, classifyVars, dueVars, memoryVars, panelVars, contentVars>>

TailorNext ==
    \/ ReceiveTailorRequest
    \/ CheckSettings
    \/ ReadMemory
    \/ CallTailorResume

SpecTailor == TailorInit /\ [][TailorNext]_vars

(***************************************************************************)
(* The failures parseGeminiError is run on.  A message is a quota part, a  *)
(* status part, a per-day part and a tail, in either order of the first    *)
(* two; the tail states a delay or none.  A failure is an Error with that  *)
(* message, the message thrown as a plain string, an object carrying it,   *)
(* or a value with no usable message.                                      *)
(***************************************************************************)
\* a stated delay: lead, the whole seconds, the fraction digits, close
Delays ==
    {[lead |-> "Please retry in ", whole |-> 53, fraction |-> "809189902", close |-> "s."],
     [lead |-> "\"retryDelay\": \"", whole |-> 30, fraction |-> "", close |-> "s\""],
     [lead |-> "\"retryDelay\" : \"", whole |-> 4, fraction |-> "2", close |-> "s\" }"],
     [lead |-> "retryDelay: ", whole |-> 30, fraction |-> "", close |-> "s"],
     [lead |-> "Retry after ", whole |-> 7, fraction |-> "", close |-> "s"],
     [lead |-> "retry in ", whole |-> 12, fraction |-> "0", close |-> "s"],
     [lead |-> "RETRY IN ", whole |-> 2, fraction |-> "50", close |-> "s!"],
     [lead |-> "retry in ", whole |-> 0, fraction |-> "", close |-> "s"]}

DelayText(d) ==
    d.lead \o ToString(d.whole)
        \o (IF d.fraction = "" THEN "" ELSE "." \o d.fraction) \o d.close

Signals ==
    LET
        QuotaParts ==
            {"", "[429 Too Many Requests] ", "RESOURCE_EXHAUSTED: ",
             "You exceeded your current quota. "}

        StatusParts ==
            {"", "[401 Unauthorized] API_KEY_INVALID. ", "invalid api key. ",
             "[403 Forbidden] PERMISSION_DENIED. ",
             "[500 Internal Server Error] INTERNAL. ",
             "code 500, then 403, then 401. ", "Network request failed. "}

        DayParts ==
            {"", "GenerateRequestsPerDayPerProjectPerModel-FreeTier. ",
             "limit: per_day. ", "RPD limit reached. "}

        Tails ==
            {DelayText(d) : d \in Delays}
                \cup {"", "Try again later.", "Do not retry today."}

        Messages ==
            {q \o s \o p \o tail :
                q \in QuotaParts, s \in StatusParts, p \in DayParts, tail \in Tails}
                \cup {s \o q \o tail : q \in QuotaParts, s \in StatusParts, tail \in Tails}

        \* values that carry no string message
        OddSignals ==
            {Null, Undefined, Num(429), Num(500), Bool(FALSE), Obj(<<>>),
             Arr(<<Str("quota"), Num(401)>>),
             ErrorOf("TypeError", ""), ErrorOf("", ""),
             Obj([message |-> Null]), Obj([message |-> Num(0)]),
             Obj([message |-> Num(429)]), Obj([message |-> Bool(TRUE)]),
             Obj([message |-> Obj([code |-> Num(403)])]),
             Obj([message |-> Arr(<<Str("429")>>)]),
             Obj([message |-> Arr(<<Str("500"), Null>>)]),
             Obj([message |-> Arr(<<>>)]), Obj([code |-> Num(401)])}
    IN  {ErrorOf("Error", m) : m \in Messages}
            \cup {Str(m) : m \in Messages}
            \cup {Obj([message |-> Str(m)]) : m \in Messages}
            \cup OddSignals

ClassifyInit ==
    /\ signal \in Signals
    /\ classified = Null
    /\ Idle({"classify"})

\* one call parseGeminiError(signal)
ClassifySignal ==
    /\ classified = Null
    /\ classified' = parseGeminiError(signal)
    /\ UNCHANGED <<signal, kwVars, parseVars, tailorVars, dueVars, memoryVars, panelVars, contentVars>>

SpecClassify == ClassifyInit /\ [][ClassifySignal]_vars

(***************************************************************************)
(* Whether a summary rebuild is due: shouldRebuildSummary applied to        *)
(* aggregates with every total and summary position up to MaxTotal, the    *)
(* position also missing.                                                  *)
(***************************************************************************)
DueInit ==
    /\ aggregateArg \in
          {[totalSessions |-> total, summaryBuiltAt |-> Num(builtAt)] :
              total \in 0..MaxTotal, builtAt \in 0..MaxTotal}
              \cup {[totalSessions |-> total] : total \in 0..MaxTotal}
    /\ rebuildDue = Null
    /\ Idle({"due"})

\* one call shouldRebuildSummary(aggregateArg)
CheckRebuildDue ==
    /\ rebuildDue = Null
    /\ rebuildDue' = Bool(shouldRebuildSummary(aggregateArg))
    /\ UNCHANGED <<aggregateArg, kwVars, parseVars, tailorVars, classifyVars, memoryVars, panelVars, contentVars>>

SpecDue == DueInit /\ [][CheckRebuildDue]_vars

(***************************************************************************)
(* The career memory under the requests of the service worker.  Every      *)
(* request is a call in flight: it reads the whole record, is suspended,   *)
(* and writes the whole record.  A handler runs without interruption up to *)
(* its first await, so the read of the store is issued in the step that    *)
(* takes the message.  Date.now() is the clock, which may stand still      *)
(* between two readings.                                                   *)
(***************************************************************************)
RecordRequests ==
    {[jobData |-> [title |-> "Data Engineer", company |-> "Acme", source |-> "linkedin",
                   url |-> "https://jobs.example/1"],
      confirmedResume |->
          [experience |-> <<[bullets |-> <<[text |-> "Built data pipelines in Python"],
                                           [text |-> "led teams"],
                                           [text |-> "  Built   dashboards "],
                                           [text |-> "   "]>>]>>],
      keywordsUsed |-> Arr(<<"python", "sql">>)],
     [jobData |-> [title |-> "", company |-> "", source |-> "", url |-> ""],
      confirmedResume |-> [experience |-> <<>>],
      keywordsUsed |-> Undefined]}

Statuses == {"applied"}

SummaryTexts == {"Targets data roles; short bullets."}

\* the session recordSession builds at time now
newSession(request, now) ==
    [id |-> now,
     date |-> "2026-11-03",
     job |-> [title |-> request.jobData.title,
              company |-> request.jobData.company,
              source |-> IF request.jobData.source = "" THEN "manual"
                         ELSE request.jobData.source,
              url |-> request.jobData.url],
     targetRole |-> request.jobData.title,
     keywordsUsed |-> Or(request.keywordsUsed, Arr(<<>>)).v,
     bulletVerbs |-> extractBulletVerbs(request.confirmedResume),
     avgBulletLen |-> calcAvgBulletLen(request.confirmedResume),
     status |-> "tailored"]

\* a slip: the aggregate is written as it was read
recordSessionKeepingAggregate(memory, request, now) ==
    [sessions |-> Append(memory.sessions, newSession(request, now)),
     aggregate |-> memory.aggregate]

\* a slip: the new session is put in front of the list
recordSessionFirst(memory, request, now) ==
    LET sessions == <<newSession(request, now)>> \o memory.sessions
    IN  [sessions |-> sessions,
         aggregate |-> rebuildAggregate(sessions, memory.aggregate)]

\* recordSession between its read and its write: the record it writes
recordSession(memory, request, now) ==
    LET sessions == Append(memory.sessions, newSession(request, now))
    IN  [sessions |-> sessions,
         aggregate |-> rebuildAggregate(sessions, memory.aggregate)]

\* memory.sessions.find(s => s.id === sessionId): its index, 0 when none
findSession(memory, sessionId) ==
    IF \E i \in 1..Len(memory.sessions) : memory.sessions[i].id = sessionId
    THEN CHOOSE i \in 1..Len(memory.sessions) :
            /\ memory.sessions[i].id = sessionId
            /\ \A j \in 1..(i - 1) : memory.sessions[j].id # sessionId
    ELSE 0

\* a slip: every session with the id is given the status
updateSessionStatusAll(memory, sessionId, status) ==
    [memory EXCEPT !.sessions =
        [i \in 1..Len(memory.sessions) |->
            IF memory.sessions[i].id = sessionId
            THEN [memory.sessions[i] EXCEPT !.status = status]
            ELSE memory.sessions[i]]]

\* updateSessionStatus between its read and its write, a session found
updateSessionStatus(memory, sessionId, status) ==
    [memory EXCEPT !.sessions[findSession(memory, sessionId)].status = status]

\* a slip: the summary position is left where it was
updatePreferenceSummaryOnly(memory, summary) ==
    [memory EXCEPT !.aggregate.preferenceSummary = Str(summary)]

\* updatePreferenceSummary between its read and its write
updatePreferenceSummary(memory, summary) ==
    [memory EXCEPT !.aggregate.preferenceSummary = Str(summary),
                   !.aggregate.summaryBuiltAt = Num(memory.aggregate.totalSessions)]

\* the store after count sessions were recorded one after the other, at
\* the times 1..count
RECURSIVE StoredAfter(_)
StoredAfter(count) ==
    IF count = 0 THEN defaultMemory
    ELSE recordSession(StoredAfter(count - 1),
                       CHOOSE r \in RecordRequests : r.jobData.title # "", count)

\* a call in flight
Call(n, op, pc) ==
    [n |-> n, op |-> op, pc |-> pc, memory |-> Null,
     data |-> [jobData |-> Null, confirmedResume |-> Null, keywordsUsed |-> Undefined],
     sessionId |-> 0, status |-> "", summary |-> "", launchedAt |-> 0]

MemoryInit ==
    /\ \E count \in {0, StoredAtStart} :
          /\ store = (IF count = 0 THEN Null ELSE StoredAfter(count))
          /\ clock = count
          /\ history = [NoHistory EXCEPT !.recorded = StoredAfter(count).sessions]
    /\ calls = {}
    /\ started = 0
    /\ settings \in [ros_apiKey : ApiKeys \ {""}, ros_baseResume : {""}]
    /\ memorySummary = Null
    /\ tailorPc = "idle"
    /\ tailorData = Null
    /\ genOutcome = Null
    /\ tailorResponse = Null
    /\ Idle({"tailor", "memory"})

outside == <<kwVars, parseVars, tailorVars, classifyVars, dueVars, panelVars, contentVars>>

\* the router takes a RECORD_SESSION message: recordSession reads the store
ReceiveRecordSession ==
    /\ started < MaxCalls
    /\ \E request \in RecordRequests :
          calls' = calls \cup {[Call(started + 1, "RECORD_SESSION", "recordWrite")
                              EXCEPT !.data = request, !.memory = readMemory(store)]}
    /\ started' = started + 1
    /\ history' = [history EXCEPT !.cleared = FALSE]
    /\ UNCHANGED <<store, clock, outside>>

\* the router takes an UPDATE_STATUS message: updateSessionStatus reads the
\* store
ReceiveUpdateStatus ==
    /\ started < MaxCalls
    /\ \E sessionId \in {StoredAtStart, MaxClock}, status \in Statuses :
          calls' = calls \cup
              {[Call(started + 1, "UPDATE_STATUS", "statusWrite")
                  EXCEPT !.sessionId = sessionId, !.status = status,
                         !.memory = readMemory(store)]}
    /\ started' = started + 1
    /\ UNCHANGED <<store, clock, history, outside>>

\* CLEAR_MEMORY: chrome.storage.local.remove
ClearMemory ==
    /\ started < MaxCalls
    /\ started' = started + 1
    /\ store' = Null
    /\ history' = [history EXCEPT
          !.lastWrite = [op |-> "clearMemory", read |-> Null, sessionId |-> 0,
                         stored |-> store],
          !.recorded = <<>>,
          !.summaryWritten = Null,
          !.cleared = TRUE]
    /\ UNCHANGED <<clock, calls, outside>>

\* recordSession after its read: the session is built at Date.now(),
\* pushed, the aggregate rebuilt, the record written, the id returned
WriteSession ==
    \E call \in calls :
        /\ call.pc = "recordWrite"
        /\ \E now \in (IF clock < MaxClock THEN {clock, clock + 1} ELSE {clock + 1}) :
              /\ clock' = now
              /\ store' = recordSession(call.memory, call.data, now)
              /\ calls' = (calls \ {call}) \cup
                    {[call EXCEPT !.pc = "checkRead", !.sessionId = now, !.memory = Null]}
              /\ history' = [history EXCEPT
                    !.lastWrite = [op |-> "recordSession", read |-> call.memory,
                                   sessionId |-> now, stored |-> store],
                    !.recorded = Append(@, newSession(call.data, now))]
        /\ UNCHANGED <<started, outside>>

\* RECORD_SESSION after recordSession: the second readMemory and the
\* check; when the summary is due and a key is stored, the rebuild is
\* launched and not awaited; the request is answered with the session id.
\* No modelled handler writes ros_apiKey, so the read of it is taken in
\* the same step
CheckRebuild ==
    \E call \in calls :
        /\ call.pc = "checkRead"
        /\ IF shouldRebuildSummary(readMemory(store).aggregate)
                /\ settings.ros_apiKey # ""
           THEN /\ calls' = (calls \ {call}) \cup
                      {[Call(call.n, "rebuild", "generate") EXCEPT
                          !.launchedAt = readMemory(store).aggregate.totalSessions]}
                /\ history' = [history EXCEPT
                      !.launches = @ \cup {readMemory(store).aggregate.totalSessions},
                      !.lastAnswer = [n |-> call.n, response |-> sendResponse(
                                          Returned([sessionId |-> call.sessionId]))]]
           ELSE /\ calls' = calls \ {call}
                /\ history' = [history EXCEPT
                      !.lastAnswer = [n |-> call.n, response |-> sendResponse(
                                          Returned([sessionId |-> call.sessionId]))]]
        /\ UNCHANGED <<store, clock, started, outside>>

\* a slip: a failed rebuild stores an empty summary
CompleteRebuildClearing ==
    \E call \in calls :
        /\ call.pc = "generate"
        /\ \/ /\ \E summary \in SummaryTexts :
                    calls' = (calls \ {call})
                               \cup {[call EXCEPT !.pc = "summaryWrite", !.summary = summary,
                                                  !.memory = readMemory(store)]}
              /\ store' = store
           \/ /\ calls' = calls \ {call}
              /\ store' = updatePreferenceSummary(readMemory(store), "")
        /\ UNCHANGED <<clock, started, history, outside>>

\* rebuildPreferenceSummary settles: with a summary, which
\* updatePreferenceSummary is called with and reads the store, or with a
\* failure, which is logged
CompleteRebuild ==
    \E call \in calls :
        /\ call.pc = "generate"
        /\ \/ \E summary \in SummaryTexts :
                 calls' = (calls \ {call})
                            \cup {[call EXCEPT !.pc = "summaryWrite", !.summary = summary,
                                               !.memory = readMemory(store)]}
           \/ calls' = calls \ {call}
        /\ UNCHANGED <<store, clock, started, history, outside>>

\* updatePreferenceSummary after its read
WriteSummary ==
    \E call \in calls :
        /\ call.pc = "summaryWrite"
        /\ store' = updatePreferenceSummary(call.memory, call.summary)
        /\ calls' = calls \ {call}
        /\ history' = [history EXCEPT
              !.lastWrite = [op |-> "updatePreferenceSummary", read |-> call.memory,
                             sessionId |-> 0, stored |-> store],
              !.summaryWritten =
                  [preferenceSummary |-> Str(call.summary),
                   summaryBuiltAt |-> Num(call.memory.aggregate.totalSessions)],
              !.wrote = @ \cup {call.launchedAt}]
        /\ UNCHANGED <<clock, started, outside>>

\* updateSessionStatus after its read: the record is written only when a
\* session has the id
WriteStatus ==
    \E call \in calls :
        /\ call.pc = "statusWrite"
        /\ calls' = calls \ {call}
        /\ IF findSession(call.memory, call.sessionId) # 0
           THEN /\ store' = updateSessionStatus(call.memory, call.sessionId, call.status)
                /\ history' = [history EXCEPT
                      !.lastWrite = [op |-> "updateSessionStatus", read |-> call.memory,
                                     sessionId |-> call.sessionId, stored |-> store]]
           ELSE /\ store' = store
                /\ history' = [history EXCEPT
                      !.lastWrite = [op |-> "no session found", read |-> call.memory,
                                     sessionId |-> call.sessionId, stored |-> store]]
        /\ UNCHANGED <<clock, started, outside>>

MemoryNext ==
    \/ ReceiveRecordSession
    \/ ReceiveUpdateStatus
    \/ ClearMemory
    \/ WriteSession
    \/ CheckRebuild
    \/ CompleteRebuild
    \/ WriteSummary
    \/ WriteStatus

SpecMemory == MemoryInit /\ [][MemoryNext]_vars

(***************************************************************************)
(* RECORD_SESSION requests taken in turn from an empty memory: a request   *)
(* arrives only when no call is in flight, so that a launched rebuild has  *)
(* written or failed before the next request.                              *)
(***************************************************************************)
InTurnInit ==
    /\ store = Null
    /\ clock = MaxClock
    /\ calls = {}
    /\ started = 0
    /\ history = NoHistory
    /\ settings \in [ros_apiKey : ApiKeys, ros_baseResume : {""}]
    /\ memorySummary = Null
    /\ tailorPc = "idle"
    /\ tailorData = Null
    /\ genOutcome = Null
    /\ tailorResponse = Null
    /\ Idle({"tailor", "memory"})

\* the router takes a RECORD_SESSION message, the requests alternating
ReceiveInTurn ==
    /\ calls = {}
    /\ started < MaxInTurn
    /\ \E request \in RecordRequests :
          /\ (request.jobData.title = "") = (started % 2 = 1)
          /\ calls' = {[Call(started + 1, "RECORD_SESSION", "recordWrite")
                          EXCEPT !.data = request, !.memory = readMemory(store)]}
    /\ started' = started + 1
    /\ UNCHANGED <<store, clock, history, outside>>

InTurnNext ==
    \/ ReceiveInTurn
    \/ WriteSession
    \/ CheckRebuild
    \/ CompleteRebuild
    \/ WriteSummary

SpecInTurn == InTurnInit /\ [][InTurnNext]_vars

(***************************************************************************)
(* Properties of the skill-gap analysis.                                   *)
(***************************************************************************)
CategoryKey == [hard |-> "hardSkills", soft |-> "softSkills", other |-> "otherSkills"]

CategoryNames == SeqToSet(Categories)

Analysed == keywordAnalysis # Null

\* the names the analysis reports with a status, for a category
NamesWithStatus(category, status) ==
    LET skills == keywordAnalysis[CategoryKey[category]].skills
    IN  {skills[k].name : k \in {i \in 1..Len(skills) : skills[i].status = status}}

\* the skills of a vocabulary that have a synonym all of whose
\* space-separated words belong to the token set
SkillsPresent(tokenSet, vocab) ==
    {vocab[k].skill : k \in {i \in 1..Len(vocab) :
        \E j \in 1..Len(vocab[i].synonyms) :
            \A w \in SeqToSet(split(vocab[i].synonyms[j], " ")) : w \in tokenSet}}

JobTokenSet == SeqToSet(normalize(kwJob))
ResumeTokenSet == SeqToSet(normalize(kwResume))

\* C3: in every category the matched and missing lists are disjoint, their
\* union is exactly the set of skills present in the job description, and
\* matched is exactly those also present in the resume.
C3_MatchedMissingPartition ==
    Analysed =>
        \A c \in CategoryNames :
            LET matched  == NamesWithStatus(c, "matched")
                missing  == NamesWithStatus(c, "missing")
                required == SkillsPresent(JobTokenSet, SKILL_GRAPH[c])
                owned    == SkillsPresent(ResumeTokenSet, SKILL_GRAPH[c])
            IN  /\ matched \cap missing = {}
                /\ matched \cup missing = required
                /\ matched = required \cap owned
                /\ Len(keywordAnalysis[CategoryKey[c]].skills)
                     = Cardinality(required)

\* a job description with both a matched and a missing hard skill
C3_Witness ==
    /\ Analysed
    /\ NamesWithStatus("hard", "matched") # {}
    /\ NamesWithStatus("hard", "missing") # {}

\* the rounding of n / d to the nearest integer, ties upward (Math.round)
RoundedRatio(n, d) == (2 * n + d) \div (2 * d)

\* C4: in every category the score is an integer between 0 and 100, equal
\* to round(100 * |matched| / |required|), and 0 when no skill of the
\* category is present in the job description.
C4_ScoreIsRoundedShare ==
    Analysed =>
        \A c \in CategoryNames :
            LET score    == keywordAnalysis[CategoryKey[c]].score
                matched  == Cardinality(NamesWithStatus(c, "matched"))
                required == Cardinality(SkillsPresent(JobTokenSet, SKILL_GRAPH[c]))
            IN  /\ score \in 0..100
                /\ required = 0 => score = 0
                /\ required > 0 => score = RoundedRatio(100 * matched, required)

\* C5: detectSkills returns exactly the skills that have a synonym phrase
\* all of whose space-separated words are in the token set, whatever the
\* order or adjacency of the words in the document, and no other skill.
C5_DetectIsWordContainment ==
    \A c \in CategoryNames :
        /\ SeqToSet(detectSkills(normalize(kwJob), SKILL_GRAPH[c]))
             = SkillsPresent(JobTokenSet, SKILL_GRAPH[c])
        /\ SeqToSet(detectSkills(normalize(kwResume), SKILL_GRAPH[c]))
             = SkillsPresent(ResumeTokenSet, SKILL_GRAPH[c])

\* "learning" stands on a line before "Machine": the skill is reported
C5_Witness ==
    /\ kwJob = "learning\nMachine"
    /\ Analysed
    /\ "Machine Learning" \in
         NamesWithStatus("hard", "matched") \cup NamesWithStatus("hard", "missing")

\* the phrase stands in the text as whole words
ContainsPhrase(text, phrase) ==
    \E i \in 1..(Len(text) - Len(phrase) + 1) :
        /\ SubSeq(text, i, i + Len(phrase) - 1) = phrase
        /\ (i = 1 \/ Char(text, i - 1) \in SpaceChars)
        /\ (i + Len(phrase) - 1 = Len(text) \/ Char(text, i + Len(phrase)) \in SpaceChars)

\* C6: every synonym phrase of the graph is a sequence of normalized words
\* (normalize gives back the words of the phrase), so a job description
\* that contains a synonym phrase verbatim is reported to contain the skill.
C6_SynonymsAreNormalized ==
    Analysed =>
        \A c \in CategoryNames :
            \A k \in 1..Len(SKILL_GRAPH[c]) :
                \A j \in 1..Len(SKILL_GRAPH[c][k].synonyms) :
                    LET phrase == SKILL_GRAPH[c][k].synonyms[j]
                    IN  /\ normalize(phrase) = split(phrase, " ")
                        /\ ContainsPhrase(kwJob, phrase) =>
                             SKILL_GRAPH[c][k].skill \in
                                 NamesWithStatus(c, "matched")
                                   \cup NamesWithStatus(c, "missing")

(***************************************************************************)
(* Properties of the response normalizer.                                  *)
(***************************************************************************)
Normalized == normalized # Null

\* the reply without its fences, and the object text cut out of it
Stripped == stripClosingFence(stripOpeningFence(trim(replyText)))

HasBoundary == indexOf(Stripped, "{") # -1 /\ lastIndexOf(Stripped, "}") # -1

ObjectText == slice(Stripped, indexOf(Stripped, "{"), lastIndexOf(Stripped, "}") + 1)

StrictData == JSONparse(ObjectText)

RepairedData == JSONparse(removeTrailingCommas(ObjectText))

ObjectParses == HasBoundary /\ (StrictData.ok \/ RepairedData.ok)

ObjectData == IF StrictData.ok THEN StrictData.val ELSE RepairedData.val

IsString(x) == x.t = "string"

ScalarFields == {"name", "email", "phone", "location", "linkedin", "summary"}

WellTypedBullet(b) == IsString(b.text) /\ b.authentic \in BOOLEAN

WellTypedExperience(e) ==
    /\ IsString(e.company) /\ IsString(e.title) /\ IsString(e.dates)
    /\ \A j \in 1..Len(e.bullets) : WellTypedBullet(e.bullets[j])

WellTypedEducation(e) ==
    IsString(e.institution) /\ IsString(e.degree) /\ IsString(e.dates)

WellTypedRecord(r) ==
    /\ \A f \in ScalarFields : IsString(r[f])
    /\ \A i \in 1..Len(r.experience) : WellTypedExperience(r.experience[i])
    /\ \A i \in 1..Len(r.skills) : IsString(r.skills[i])
    /\ \A i \in 1..Len(r.education) : WellTypedEducation(r.education[i])

\* C2: parseResumeJSON throws only when the text has no object boundary or
\* when neither the raw nor the repaired object text parses; whenever the
\* object text parses it returns a well-typed ResumeRecord, whatever the
\* types and shapes of the fields.
C2_NormalizationIsTotal ==
    Normalized =>
        /\ normalized.threw => ~ObjectParses
        /\ ObjectParses =>
              ~normalized.threw /\ WellTypedRecord(normalized.value)

HasText(x, key) == x.t = "object" /\ key \in DOMAIN x.v

\* the key is present: the object has it with a value other than null
HasKey(x, key) == x.t = "object" /\ key \in DOMAIN x.v /\ x.v[key].t # "null"

ClaimedPick(x, short, long, fallback) ==
    IF HasKey(x, short) THEN x.v[short]
    ELSE IF HasKey(x, long) THEN x.v[long]
    ELSE fallback

ClaimedList(x, short, long) == ClaimedPick(x, short, long, Arr(<<>>))

ExperienceTaken(out, list) ==
    /\ list.t = "array"
    /\ Len(out) = Len(list.v)
    /\ \A i \in 1..Len(out) :
          /\ out[i].company = ClaimedPick(list.v[i], "c", "company", Str(""))
          /\ out[i].title = ClaimedPick(list.v[i], "t", "title", Str(""))
          /\ out[i].dates = ClaimedPick(list.v[i], "d", "dates", Str(""))
          /\ ClaimedList(list.v[i], "b", "bullets").t = "array"
          /\ Len(out[i].bullets) = Len(ClaimedList(list.v[i], "b", "bullets").v)

EducationTaken(out, list) ==
    /\ list.t = "array"
    /\ Len(out) = Len(list.v)
    /\ \A i \in 1..Len(out) :
          /\ out[i].institution = ClaimedPick(list.v[i], "i", "institution", Str(""))
          /\ out[i].degree = ClaimedPick(list.v[i], "dg", "degree", Str(""))
          /\ out[i].dates = ClaimedPick(list.v[i], "d", "dates", Str(""))

SkillsTaken(out, list) == list.t = "array" /\ out = list.v

ShortKeyOf ==
    [name |-> "n", email |-> "e", phone |-> "ph", location |-> "lo",
     linkedin |-> "li", summary |-> "su", experience |-> "x", skills |-> "sk",
     education |-> "ed", company |-> "c", title |-> "t", dates |-> "d",
     bullets |-> "b", institution |-> "i", degree |-> "dg"]

LongKeys == DOMAIN ShortKeyOf

Shorter(key) == IF key \in LongKeys THEN ShortKeyOf[key] ELSE key

\* the object with every long key replaced by its short key
ShortKeyed(x) ==
    IF x.t # "object" THEN x
    ELSE Obj([k \in {Shorter(j) : j \in DOMAIN x.v} |->
                x.v[CHOOSE j \in DOMAIN x.v : Shorter(j) = k]])

ShortKeyedEntries(list) ==
    IF list.t # "array" THEN list
    ELSE Arr([i \in 1..Len(list.v) |-> ShortKeyed(list.v[i])] \o <<>>)

EntryLists == {"experience", "education"}

\* the parsed object and its experience and education entries, short-keyed
ShortKeyedData(x) ==
    Obj([k \in {Shorter(j) : j \in DOMAIN x.v} |->
            LET j == CHOOSE j \in DOMAIN x.v : Shorter(j) = k
            IN  IF j \in EntryLists THEN ShortKeyedEntries(x.v[j]) ELSE x.v[j]])

ShortKeys == {ShortKeyOf[j] : j \in LongKeys}

NoShortKeys(x) == x.t = "object" => \A k \in DOMAIN x.v : k \notin ShortKeys

UsesLongKeysOnly(x) ==
    /\ NoShortKeys(x)
    /\ \A k \in DOMAIN x.v \cap EntryLists :
          x.v[k].t = "array" => \A i \in 1..Len(x.v[k].v) : NoShortKeys(x.v[k].v[i])

\* C7: every scalar and list field of the record is the value under the
\* short key when that key is present, else the value under the long key,
\* else the typed default; and an object that uses only long keys gives the
\* same record as the same object with short keys.
C7_ShortKeyFirst ==
    (Normalized /\ ObjectParses) =>
        /\ ~normalized.threw
        /\ normalized.value.name = ClaimedPick(ObjectData, "n", "name", Str(""))
        /\ normalized.value.email = ClaimedPick(ObjectData, "e", "email", Str(""))
        /\ normalized.value.phone = ClaimedPick(ObjectData, "ph", "phone", Str(""))
        /\ normalized.value.location = ClaimedPick(ObjectData, "lo", "location", Str(""))
        /\ normalized.value.linkedin = ClaimedPick(ObjectData, "li", "linkedin", Str(""))
        /\ normalized.value.summary = ClaimedPick(ObjectData, "su", "summary", Str(""))
        /\ ExperienceTaken(normalized.value.experience,
                           ClaimedList(ObjectData, "x", "experience"))
        /\ SkillsTaken(normalized.value.skills, ClaimedList(ObjectData, "sk", "skills"))
        /\ EducationTaken(normalized.value.education,
                          ClaimedList(ObjectData, "ed", "education"))
        /\ UsesLongKeysOnly(ObjectData) =>
              validateResumeSchema(ShortKeyedData(ObjectData))
                 = validateResumeSchema(ObjectData)

IsFalse(x) == x.t = "boolean" /\ x.v = FALSE

UsesTextKey(b) == b.t = "object" /\ (HasText(b, "tx") \/ HasText(b, "text"))

ClaimedBullet(b) ==
    IF b.t = "string" THEN [text |-> b, authentic |-> TRUE]
    ELSE IF UsesTextKey(b)
    THEN [text |-> IF HasText(b, "tx") THEN b.v["tx"] ELSE b.v["text"],
          authentic |-> ~(Truthy(Get(b, "f")) \/ IsFalse(Get(b, "authentic")))]
    ELSE [text |-> Str(""), authentic |-> TRUE]

ListOrEmpty(x) == IF x.t = "array" THEN x.v ELSE <<>>

\* the experience entries of the parsed object and the bullets of entry i
ExperienceData == ListOrEmpty(Pick(ObjectData, "x", "experience", Arr(<<>>)))

BulletData(i) == ListOrEmpty(Pick(ExperienceData[i], "b", "bullets", Arr(<<>>)))

\* nothing but a bullet can make the expansion throw
BulletsReached ==
    /\ ObjectParses
    /\ Pick(ObjectData, "x", "experience", Arr(<<>>)).t = "array"
    /\ Pick(ObjectData, "ed", "education", Arr(<<>>)).t = "array"
    /\ \A i \in 1..Len(ExperienceData) :
          /\ ~Nullish(ExperienceData[i])
          /\ Pick(ExperienceData[i], "b", "bullets", Arr(<<>>)).t = "array"
    /\ \A i \in 1..Len(ListOrEmpty(Pick(ObjectData, "ed", "education", Arr(<<>>)))) :
          ~Nullish(ListOrEmpty(Pick(ObjectData, "ed", "education", Arr(<<>>)))[i])
    /\ \E i \in 1..Len(ExperienceData) : Len(BulletData(i)) > 0

\* C8: a bare string bullet becomes {text: the string, authentic: true}; an
\* object with a text under tx or text becomes that text, with authentic
\* false exactly when f is truthy or authentic is false; every other entry
\* becomes {text: '', authentic: true}.
C8_BulletNormalization ==
    (Normalized /\ BulletsReached) =>
        /\ ~normalized.threw
        /\ \A i \in 1..Len(ExperienceData) :
              \A j \in 1..Len(BulletData(i)) :
                  normalized.value.experience[i].bullets[j]
                      = ClaimedBullet(BulletData(i)[j])

NoOpeningBrace == indexOf(replyText, "{") = -1

NoClosingBrace == lastIndexOf(replyText, "}") = -1

ClosingBeforeOpening ==
    /\ ~NoOpeningBrace /\ ~NoClosingBrace
    /\ lastIndexOf(replyText, "}") < indexOf(replyText, "{")

\* C9: a reply with no opening brace or no closing brace makes
\* parseResumeJSON throw its no-object error, and so does (with a parse
\* error) a reply whose last closing brace comes before its first opening
\* brace; in neither case is a record returned.
C9_NoBoundaryFails ==
    Normalized =>
        /\ (NoOpeningBrace \/ NoClosingBrace) =>
              /\ normalized.threw
              /\ normalized.error = NoJsonError
              /\ normalized.value = Undefined
        /\ ClosingBeforeOpening =>
              /\ normalized.threw
              /\ normalized.error = SyntaxError
              /\ normalized.value = Undefined

C9_Witness ==
    /\ Normalized
    /\ NoOpeningBrace /\ ~NoClosingBrace
    /\ normalized.threw

\* C10: the object text is parsed strictly first; the repair (one pass that
\* drops every comma standing, up to white space, before a closing brace or
\* bracket) runs only when that parse failed and is followed by one more
\* parse, whose failure is thrown; a text that parses strictly is never
\* altered.
C10_RepairOnlyAfterFailedParse ==
    (Normalized /\ HasBoundary) =>
        /\ normalized.strictParsed = StrictData.ok
        /\ normalized.repaired <=> ~StrictData.ok
        /\ normalized.repaired => normalized.fixed = removeTrailingCommas(ObjectText)
        /\ (~StrictData.ok /\ ~RepairedData.ok) =>
              normalized.threw /\ normalized.error = SyntaxError
        /\ StrictData.ok => normalized.fixed = ObjectText

(***************************************************************************)
(* Properties of the TAILOR_RESUME handler.                                *)
(***************************************************************************)
StrippedOf(text) == stripClosingFence(stripOpeningFence(trim(text)))

\* the text contains a well-formed JSON object
HasWellFormedObject(text) ==
    LET stripped == StrippedOf(text)
    IN  /\ indexOf(stripped, "{") # -1
        /\ lastIndexOf(stripped, "}") # -1
        /\ JSONparse(slice(stripped, indexOf(stripped, "{"),
                           lastIndexOf(stripped, "}") + 1)).ok

TailorAnswered == tailorPc = "done" /\ tailorResponse # Null

\* C1: with an API key and a base resume stored, a request whose
\* collaborator replies with a text that contains a well-formed JSON object
\* is answered with success and the record parseResumeJSON makes from that
\* text.
C1_TailorSucceeds ==
    (/\ TailorAnswered
     /\ settings.ros_apiKey # ""
     /\ settings.ros_baseResume # ""
     /\ genOutcome.kind = "text"
     /\ HasWellFormedObject(genOutcome.text)) =>
        /\ tailorResponse.success
        /\ tailorResponse.data = [resume |-> parseResumeJSON(genOutcome.text).value]

(***************************************************************************)
(* Properties of the error classifier.                                     *)
(***************************************************************************)
Classified == classified # Null

\* the failure is a string, or carries a string as its message
SignalHasText ==
    \/ signal.t = "string"
    \/ signal.t \in {"error", "object"}
        /\ "message" \in DOMAIN signal.v
        /\ signal.v["message"].t = "string"
        /\ signal.v["message"].v # ""

SignalText == IF signal.t = "string" THEN signal.v ELSE signal.v["message"].v

QuotaMarked(text) ==
    includes(text, "429") \/ includes(text, "RESOURCE_EXHAUSTED") \/ includes(text, "quota")

DayMarked(text) ==
    includes(text, "PerDay") \/ includes(text, "per_day") \/ includes(text, "RPD")

\* a stated delay rounded up to a whole second
RoundedUp(d) ==
    d.whole + (IF \E i \in 1..Len(d.fraction) : Char(d.fraction, i) # "0" THEN 1 ELSE 0)

\* the delay the text states at its end, 60 when it states none
StatedDelay(text) ==
    IF \E d \in Delays : EndsWith(text, DelayText(d))
    THEN RoundedUp(CHOOSE d \in Delays : EndsWith(text, DelayText(d)))
    ELSE 60

\* C11: a failure whose text has a quota marker and a per-day marker is
\* classified DAILY_LIMIT with retryAfter null; one with a quota marker and
\* no per-day marker is classified RATE_LIMIT with retryAfter the delay the
\* text states, rounded up to a whole second, or 60 when it states none.
C11_QuotaClassification ==
    (Classified /\ SignalHasText /\ QuotaMarked(SignalText)) =>
        /\ ~classified.threw
        /\ IF DayMarked(SignalText)
           THEN /\ classified.value.code = "DAILY_LIMIT"
                /\ classified.value.retryAfter = Null
           ELSE /\ classified.value.code = "RATE_LIMIT"
                /\ classified.value.retryAfter = Num(StatedDelay(SignalText))

\* a rate-limited failure whose fractional delay was rounded up
C11_Witness ==
    /\ Classified
    /\ SignalHasText
    /\ QuotaMarked(SignalText)
    /\ ~DayMarked(SignalText)
    /\ EndsWith(SignalText, "Please retry in 53.809189902s.")
    /\ ~classified.threw
    /\ classified.value.code = "RATE_LIMIT"
    /\ classified.value.retryAfter = Num(54)

KeyMarked(text) ==
    includes(text, "401") \/ includes(text, "API_KEY_INVALID")
        \/ includes(text, "invalid api key")

PermissionMarked(text) == includes(text, "403") \/ includes(text, "PERMISSION_DENIED")

ServerMarked(text) == includes(text, "500") \/ includes(text, "INTERNAL")

\* C12: the patterns are tried in a fixed order, quota first, then the
\* invalid-key pattern, then the permission pattern, then the server-error
\* pattern, and a failure that matches none is UNKNOWN: a failure with a
\* quota marker is DAILY_LIMIT or RATE_LIMIT whatever else its text holds.
C12_PriorityOrder ==
    (Classified /\ SignalHasText) =>
        /\ ~classified.threw
        /\ classified.value.code =
              IF QuotaMarked(SignalText)
              THEN (IF DayMarked(SignalText) THEN "DAILY_LIMIT" ELSE "RATE_LIMIT")
              ELSE IF KeyMarked(SignalText) THEN "INVALID_KEY"
              ELSE IF PermissionMarked(SignalText) THEN "PERMISSION"
              ELSE IF ServerMarked(SignalText) THEN "SERVER_ERROR"
              ELSE "UNKNOWN"

\* a failure whose text holds 500, 403 and 401 before its quota marker
C12_Witness ==
    /\ Classified
    /\ SignalHasText
    /\ StartsWith(SignalText, "code 500, then 403, then 401. [429 Too Many Requests] ")
    /\ ~classified.threw
    /\ classified.value.code \in {"DAILY_LIMIT", "RATE_LIMIT"}

ErrorCodes ==
    {"DAILY_LIMIT", "RATE_LIMIT", "INVALID_KEY", "PERMISSION", "SERVER_ERROR", "UNKNOWN"}

\* retryAfter of a result; a result without the property reads as null
RetryAfterOf(result) ==
    IF "retryAfter" \in DOMAIN result THEN result.retryAfter ELSE Null

\* C13: for every failure (an Error, a plain string, null, undefined, an
\* object whose message is absent or not a string) parseGeminiError returns
\* without throwing; the result has one of the six codes, a string message,
\* and a retryAfter that is an integer for RATE_LIMIT and null otherwise.
C13_ClassificationIsTotal ==
    Classified =>
        /\ ~classified.threw
        /\ classified.value.code \in ErrorCodes
        /\ classified.value.message \in STRING
        /\ IF classified.value.code = "RATE_LIMIT"
           THEN /\ RetryAfterOf(classified.value).t = "number"
                /\ RetryAfterOf(classified.value).v \in Nat
           ELSE RetryAfterOf(classified.value) = Null

(***************************************************************************)
(* Properties of the career memory.                                        *)
(***************************************************************************)
\* summaryBuiltAt of an aggregate, a missing one counting as 0
BuiltAt(aggregate) ==
    IF "summaryBuiltAt" \in DOMAIN aggregate /\ aggregate.summaryBuiltAt.t = "number"
    THEN aggregate.summaryBuiltAt.v
    ELSE 0

\* C14: shouldRebuildSummary(aggregate) is true exactly when totalSessions
\* minus summaryBuiltAt is at least 5 and totalSessions is at least 2, a
\* missing summaryBuiltAt counting as 0.
C14_RebuildDue ==
    rebuildDue # Null =>
        (rebuildDue.v <=>
            /\ aggregateArg.totalSessions - BuiltAt(aggregateArg) >= 5
            /\ aggregateArg.totalSessions >= 2)

\* the check answered true at a gap of exactly five from an earlier rebuild
C14_Witness ==
    /\ rebuildDue = Bool(TRUE)
    /\ aggregateArg.totalSessions - BuiltAt(aggregateArg) = 5
    /\ BuiltAt(aggregateArg) > 0

\* the requests whose check for a rebuild is done
Checked ==
    IF \E call \in calls : call.op = "RECORD_SESSION" THEN started - 1 ELSE started

\* the total at which the last rebuild wrote before the session numbered total
LastWrote(total) ==
    LET earlier == {w \in history.wrote : w < total}
    IN  IF earlier = {} THEN 0 ELSE CHOOSE w \in earlier : \A v \in earlier : v <= w

\* C15: from an empty memory with a key stored, requests taken in turn: when
\* every rebuild launched so far has written, a rebuild is launched after
\* the 5th, 10th, ... session and after no other; in general it is launched
\* after a session exactly when five or more sessions have been recorded
\* since the last rebuild that wrote, so that after a rebuild that did not
\* write it is launched again at every following total.
C15_LaunchEveryFifth ==
    settings.ros_apiKey # "" =>
        /\ history.launches \subseteq 1..started
        /\ \A total \in 1..Checked :
              /\ (total \in history.launches) <=> (total - LastWrote(total) >= 5)
              /\ ({t \in history.launches : t < total} \subseteq history.wrote)
                    => ((total \in history.launches) <=> (total % 5 = 0))

\* eleven sessions recorded, rebuilds launched after the 5th and the 10th
\* and both written
C15_Witness ==
    /\ settings.ros_apiKey # ""
    /\ store # Null
    /\ Len(store.sessions) = 11
    /\ calls = {}
    /\ history.launches = {5, 10}
    /\ history.wrote = {5, 10}

\* rebuilds that did not write are followed by a launch at the next total,
\* and the one that wrote by none before five more sessions
C15_WitnessRetry ==
    /\ settings.ros_apiKey # ""
    /\ history.launches = {5, 6, 7}
    /\ history.wrote = {7}
    /\ Checked = 11

\* the last write to the store was made by the operation op
LastWriteBy(op) == history.lastWrite.op = op

\* the record the operation of the last write had read
ReadByLastWrite == history.lastWrite.read

\* values counted over the sessions: how often key occurs in the lists
\* that field names
Occurs(sessions, field, key) ==
    LET all == Flatten([i \in 1..Len(sessions) |-> sessions[i][field]])
    IN  Cardinality({k \in 1..Len(all) : all[k] = key})

\* top is the list of the most frequent keys of field, at most limit of them
IsTopOf(top, sessions, field, limit) ==
    LET keys == UNION {SeqToSet(sessions[i][field]) : i \in 1..Len(sessions)}
    IN  /\ Len(top) = (IF Cardinality(keys) < limit THEN Cardinality(keys) ELSE limit)
        /\ SeqToSet(top) \subseteq keys
        /\ \A i, j \in 1..Len(top) : i < j => top[i] # top[j]
        /\ \A i, j \in 1..Len(top) :
              i < j => Occurs(sessions, field, top[i]) >= Occurs(sessions, field, top[j])
        /\ \A key \in keys \ SeqToSet(top) :
              \A i \in 1..Len(top) :
                  Occurs(sessions, field, top[i]) >= Occurs(sessions, field, key)

\* the aggregate is the one computed from the complete list of sessions
\* (the summary and its position apart)
IsAggregateOf(aggregate, sessions) ==
    LET roles == {sessions[i].targetRole : i \in 1..Len(sessions)} \ {""}
        lengths == [i \in 1..Len(sessions) |->
                       IF sessions[i].avgBulletLen = 0 THEN 18 ELSE sessions[i].avgBulletLen]
        RECURSIVE Sum(_)
        Sum(n) == IF n = 0 THEN 0 ELSE Sum(n - 1) + lengths[n]
        total == Len(sessions)
    IN  /\ aggregate.totalSessions = total
        /\ DOMAIN aggregate.targetRoles = roles
        /\ \A role \in roles :
              aggregate.targetRoles[role] =
                  Cardinality({i \in 1..total : sessions[i].targetRole = role})
        /\ IsTopOf(aggregate.topKeywords, sessions, "keywordsUsed", 20)
        /\ IsTopOf(aggregate.topBulletVerbs, sessions, "bulletVerbs", 10)
        \* the mean rounded to the nearest integer, a half rounded up
        /\ IF total = 0 THEN aggregate.avgBulletLen = 18
           ELSE /\ 2 * Sum(total) - total < 2 * total * aggregate.avgBulletLen
                /\ 2 * total * aggregate.avgBulletLen <= 2 * Sum(total) + total

\* C16: the record recordSession writes is the record it read with exactly
\* one session more, at the end and with status tailored; the sessions it
\* read are unchanged and in the same order; the aggregate is the one
\* computed from the complete list; preferenceSummary and summaryBuiltAt
\* are those it read.
C16_RecordSessionAppends ==
    LastWriteBy("recordSession") =>
        /\ Len(store.sessions) = Len(ReadByLastWrite.sessions) + 1
        /\ SubSeq(store.sessions, 1, Len(ReadByLastWrite.sessions)) = ReadByLastWrite.sessions
        /\ store.sessions[Len(store.sessions)].status = "tailored"
        /\ store.sessions[Len(store.sessions)].id = history.lastWrite.sessionId
        /\ IsAggregateOf(store.aggregate, store.sessions)
        /\ store.aggregate.preferenceSummary = ReadByLastWrite.aggregate.preferenceSummary
        /\ store.aggregate.summaryBuiltAt = ReadByLastWrite.aggregate.summaryBuiltAt

\* a session recorded after five others and after a summary was written
C16_Witness ==
    /\ LastWriteBy("recordSession")
    /\ Len(ReadByLastWrite.sessions) = 5
    /\ Len(store.sessions) = 6
    /\ store.aggregate.preferenceSummary # Null
    /\ store.aggregate.summaryBuiltAt = Num(5)

\* C17: the record updatePreferenceSummary writes holds the summary, and
\* its summaryBuiltAt is the totalSessions the store holds with that write,
\* which counts every session the store holds then, those recorded since
\* the rebuild was launched included; right after the write
\* shouldRebuildSummary is false.
C17_SummaryBuiltAtWrite ==
    LastWriteBy("updatePreferenceSummary") =>
        /\ store.aggregate.preferenceSummary = history.summaryWritten.preferenceSummary
        /\ store.aggregate.preferenceSummary.v \in SummaryTexts
        /\ store.aggregate.summaryBuiltAt = Num(store.aggregate.totalSessions)
        /\ store.aggregate.totalSessions = Len(store.sessions)
        /\ store.aggregate.totalSessions = ReadByLastWrite.aggregate.totalSessions
        /\ ~shouldRebuildSummary(store.aggregate)

\* the rebuild launched at five sessions wrote when the store held six
C17_Witness ==
    /\ LastWriteBy("updatePreferenceSummary")
    /\ history.launches = {5}
    /\ history.wrote = {5}
    /\ Len(store.sessions) = 6
    /\ store.aggregate.summaryBuiltAt = Num(6)

\* C18: once updatePreferenceSummary has written a summary, the store keeps
\* that summary and the summaryBuiltAt written with it until the next
\* updatePreferenceSummary write or clearMemory, under every interleaving
\* of the handlers.
C18_SummaryPersists ==
    history.summaryWritten # Null =>
        /\ store # Null
        /\ store.aggregate.preferenceSummary = history.summaryWritten.preferenceSummary
        /\ store.aggregate.summaryBuiltAt = history.summaryWritten.summaryBuiltAt

StoredSessions == readMemory(store).sessions

\* the same session, whatever its status
SameSession(a, b) == [a EXCEPT !.status = ""] = [b EXCEPT !.status = ""]

\* C19: the stored list is append-only under every interleaving of the
\* handlers: every session whose recordSession has returned since the last
\* clearMemory is in the stored list, and the list holds no fewer sessions
\* than were returned.
C19_AppendOnly ==
    /\ Len(StoredSessions) >= Len(history.recorded)
    /\ \A i \in 1..Len(history.recorded) :
          \E j \in 1..Len(StoredSessions) :
              SameSession(StoredSessions[j], history.recorded[i])

\* the sessions are the same but for their status
SameButStatus(after, before) ==
    /\ Len(after) = Len(before)
    /\ \A i \in 1..Len(before) : SameSession(after[i], before[i])

\* C20: status is the only field of a stored session that an operation
\* changes.  The record updateSessionStatus writes is the record it read
\* with the status of one session that has the id changed and nothing
\* else; when no session it read has the id, the store is left as it was;
\* the records recordSession and updatePreferenceSummary write hold the
\* sessions they read unchanged.
C20_StatusOnly ==
    /\ LastWriteBy("updateSessionStatus") =>
          \E k \in 1..Len(ReadByLastWrite.sessions), status \in Statuses :
              /\ ReadByLastWrite.sessions[k].id = history.lastWrite.sessionId
              /\ store = [ReadByLastWrite EXCEPT !.sessions[k].status = status]
    /\ LastWriteBy("no session found") =>
          /\ \A k \in 1..Len(ReadByLastWrite.sessions) :
                ReadByLastWrite.sessions[k].id # history.lastWrite.sessionId
          /\ store = history.lastWrite.stored
    /\ LastWriteBy("recordSession") =>
          SubSeq(store.sessions, 1, Len(ReadByLastWrite.sessions)) = ReadByLastWrite.sessions
    /\ LastWriteBy("updatePreferenceSummary") =>
          store.sessions = ReadByLastWrite.sessions

\* the status of the older of two sessions with the same id was changed
C20_Witness ==
    /\ LastWriteBy("updateSessionStatus")
    /\ Cardinality({k \in 1..Len(store.sessions) :
                       store.sessions[k].id = history.lastWrite.sessionId}) = 2
    /\ Cardinality({k \in 1..Len(store.sessions) :
                       store.sessions[k].status = "applied"}) = 1

\* an update for an id no session has
C20_WitnessNoSession ==
    /\ LastWriteBy("no session found")
    /\ store # Null
    /\ Len(store.sessions) > 0

(***************************************************************************)
(* Sessions with many keywords and verbs: RECORD_SESSION requests taken    *)
(* one at a time from an empty memory, with more distinct keywords than    *)
(* topKeywords keeps and more distinct verbs than topBulletVerbs keeps.    *)
(***************************************************************************)
MaxBroad == 4      \* RECORD_SESSION requests with many keywords

BroadRequests ==
    LET bullets(texts) == [b \in 1..Len(texts) |-> [text |-> texts[b]]]
        job(title) == [title |-> title, company |-> "Acme", source |-> "indeed",
                       url |-> "https://jobs.example/2"]
    IN  {[jobData |-> job("Platform Engineer"),
          confirmedResume |->
              [experience |->
                  <<[bullets |-> bullets(<<"Built pipelines", "Led teams", "Designed schemas",
                                           "Automated releases", "Reduced costs",
                                           "Migrated services">>)],
                    [bullets |-> bullets(<<"Wrote tests", "Trained models", "Mentored interns",
                                           "Deployed clusters", "Owned oncall">>)]>>],
          keywordsUsed |->
              Arr(<<"airflow", "aws", "azure", "bash", "css", "dbt", "docker", "excel",
                    "git", "html", "java", "kafka", "linux", "mongodb", "nosql", "pandas",
                    "react", "redis", "scala", "spark", "python">>)],
         [jobData |-> job("Backend Engineer"),
          confirmedResume |->
              [experience |-> <<[bullets |-> bullets(<<"Shipped apis", "Owned oncall">>)]>>],
          keywordsUsed |-> Arr(<<"golang", "python">>)]}

\* the router takes a RECORD_SESSION message with many keywords
ReceiveBroad ==
    /\ calls = {}
    /\ started < MaxBroad
    /\ \E request \in BroadRequests :
          calls' = {[Call(started + 1, "RECORD_SESSION", "recordWrite")
                        EXCEPT !.data = request, !.memory = readMemory(store)]}
    /\ started' = started + 1
    /\ UNCHANGED <<store, clock, history, outside>>

BroadNext ==
    \/ ReceiveBroad
    \/ WriteSession
    \/ CheckRebuild

SpecBroad == InTurnInit /\ [][BroadNext]_vars

\* the entries of top are distinct and in the order of non-increasing
\* frequency over the lists that field names in the sessions
IsRanked(top, sessions, field) ==
    /\ \A i, j \in 1..Len(top) : i < j => top[i] # top[j]
    /\ \A i \in 1..(Len(top) - 1) :
          Occurs(sessions, field, top[i]) >= Occurs(sessions, field, top[i + 1])

\* C21: in every stored record topKeywords has at most 20 entries and
\* topBulletVerbs at most 10, the entries of each are distinct and ordered
\* by non-increasing frequency over the stored sessions, however many
\* distinct keywords and verbs the sessions hold.
C21_TopListsBounded ==
    store # Null =>
        /\ Len(store.aggregate.topKeywords) <= 20
        /\ Len(store.aggregate.topBulletVerbs) <= 10
        /\ IsRanked(store.aggregate.topKeywords, store.sessions, "keywordsUsed")
        /\ IsRanked(store.aggregate.topBulletVerbs, store.sessions, "bulletVerbs")

\* sessions with 22 distinct keywords and 12 distinct verbs are stored, the
\* lists are cut to 20 and to 10, and a keyword named last but used twice
\* comes first
C21_Witness ==
    /\ store # Null
    /\ Cardinality(UNION {SeqToSet(store.sessions[i].keywordsUsed) :
                            i \in 1..Len(store.sessions)}) = 22
    /\ Cardinality(UNION {SeqToSet(store.sessions[i].bulletVerbs) :
                            i \in 1..Len(store.sessions)}) = 12
    /\ Len(store.aggregate.topKeywords) = 20
    /\ Len(store.aggregate.topBulletVerbs) = 10
    /\ store.aggregate.topKeywords[1] = "python"
    /\ store.aggregate.topBulletVerbs[1] = "Owned"

(***************************************************************************)
(* Properties of the TAILOR_RESUME handler before its first call.          *)
(***************************************************************************)
\* the handler has taken the request and is about to check the settings
AtSettingsCheck == tailorPc = "settings"

\* the handler is at readMemory or at tailorResume, the call that reaches
\* the text-generation service
AtMemoryOrService == tailorPc \in {"memory", "tailor"}

\* the response is an error with this code
AnsweredWith(response, code) ==
    /\ response # Null
    /\ response.success = FALSE
    /\ response.error.code = code

\* C22: a TAILOR_RESUME request taken while no API key is stored is answered
\* with NO_KEY, and one taken with a key but without a base resume with
\* NO_RESUME; the answer is the step that follows the check of the settings,
\* and the handler is never at readMemory or at tailorResume when the key or
\* the base resume is missing: the service is not called and the career
\* memory is not touched.
C22_LocalPreconditions ==
    /\ [](AtMemoryOrService =>
            settings.ros_apiKey # "" /\ settings.ros_baseResume # "")
    /\ [][AtSettingsCheck =>
            /\ settings.ros_apiKey = "" =>
                  tailorPc' = "done" /\ AnsweredWith(tailorResponse', "NO_KEY")
            /\ (settings.ros_apiKey # "" /\ settings.ros_baseResume = "") =>
                  tailorPc' = "done" /\ AnsweredWith(tailorResponse', "NO_RESUME")]_vars

\* a request taken with a key but without a base resume was answered
C22_Witness ==
    /\ tailorPc = "done"
    /\ settings.ros_apiKey # ""
    /\ settings.ros_baseResume = ""
    /\ AnsweredWith(tailorResponse, "NO_RESUME")

\* a request taken with neither key nor base resume was answered
C22_WitnessNoKey ==
    /\ tailorPc = "done"
    /\ settings.ros_apiKey = ""
    /\ settings.ros_baseResume = ""
    /\ AnsweredWith(tailorResponse, "NO_KEY")

(***************************************************************************)
(* Properties of a failed summary rebuild.                                 *)
(***************************************************************************)
\* this step is the failure of the rebuild that call stands for: the
\* rejection is logged and nothing follows
RebuildFails(call) ==
    /\ call.op = "rebuild"
    /\ call.pc = "generate"
    /\ calls' = calls \ {call}

\* the session recorded last
NewSession == history.recorded[Len(history.recorded)]

\* C23: requests taken in turn: when the rebuild launched by a RECORD_SESSION
\* request fails, the request has been answered with success and the id of
\* the new session, the failure changes no answer, the stored
\* preferenceSummary and summaryBuiltAt keep their values, and the new
\* session stays stored.
C23_RebuildFailureSwallowed ==
    [][\A call \in calls :
          RebuildFails(call) =>
              /\ history.lastAnswer =
                    [n |-> call.n,
                     response |-> [success |-> TRUE,
                                   data |-> [sessionId |-> NewSession.id]]]
              /\ history'.lastAnswer = history.lastAnswer
              /\ store'.aggregate.preferenceSummary = store.aggregate.preferenceSummary
              /\ store'.aggregate.summaryBuiltAt = store.aggregate.summaryBuiltAt
              /\ \E j \in 1..Len(store'.sessions) : store'.sessions[j] = NewSession]_vars

\* the rebuild launched after the 10th session has failed: the summary
\* written after the 5th is still stored, with the ten sessions, and the
\* 10th request was answered with the id of its session
C23_Witness ==
    /\ calls = {}
    /\ started = 10
    /\ history.launches = {5, 10}
    /\ history.wrote = {5}
    /\ store.aggregate.preferenceSummary \in {Str(s) : s \in SummaryTexts}
    /\ store.aggregate.summaryBuiltAt = Num(5)
    /\ Len(store.sessions) = 10
    /\ history.lastAnswer.n = 10
    /\ history.lastAnswer.response.success
    /\ history.lastAnswer.response.data.sessionId = store.sessions[10].id

(***************************************************************************)
(* The counters of the stored record.                                      *)
(***************************************************************************)
\* the sum of the counts of a frequency map
CountsSum(counts) ==
    LET RECURSIVE sum(_)
        sum(keys) ==
            IF keys = {} THEN 0
            ELSE LET key == CHOOSE k \in keys : TRUE
                 IN  counts[key] + sum(keys \ {key})
    IN  sum(DOMAIN counts)

\* C26: in every stored record, under every interleaving of recordSession,
\* updateSessionStatus, updatePreferenceSummary and clearMemory,
\* totalSessions is the length of the stored list, the counts of
\* targetRoles sum to at most that length, and summaryBuiltAt is a number
\* between 0 and totalSessions.
C26_CountersConsistent ==
    store # Null =>
        /\ store.aggregate.totalSessions = Len(store.sessions)
        /\ CountsSum(store.aggregate.targetRoles) <= Len(store.sessions)
        /\ store.aggregate.summaryBuiltAt.t = "number"
        /\ 0 <= store.aggregate.summaryBuiltAt.v
        /\ store.aggregate.summaryBuiltAt.v <= store.aggregate.totalSessions

\* six sessions are stored, one of them without a target role, and the
\* summary was built at the fifth
C26_Witness ==
    /\ store # Null
    /\ Len(store.sessions) = 6
    /\ store.aggregate.totalSessions = 6
    /\ CountsSum(store.aggregate.targetRoles) = 5
    /\ store.aggregate.summaryBuiltAt = Num(5)

(***************************************************************************)
(* The bullet length of a recorded session.                                *)
(***************************************************************************)
\* the mean of the numbers of words of the bullets of the resume, rounded,
\* a word being a run of characters between white space; 18 without bullets
MeanWordsPerBullet(resume) ==
    LET texts == Flatten([j \in 1..Len(resume.experience) |->
                    [b \in 1..Len(resume.experience[j].bullets) |->
                        resume.experience[j].bullets[b].text]])
        isWord(piece) == piece # ""
        wordCount(text) == Len(SelectSeq(splitWhitespace(text), isWord))
        RECURSIVE total(_)
        total(n) == IF n = 0 THEN 0 ELSE total(n - 1) + wordCount(texts[n])
    IN  IF Len(texts) = 0 THEN 18 ELSE RoundedMean(total(Len(texts)), Len(texts))

\* this step is the write of recordSession for call
SessionWritten(call) ==
    /\ call.pc = "recordWrite"
    /\ \E next \in calls' : next.n = call.n /\ next.pc = "checkRead"

\* C27: the avgBulletLen stored with a session is the rounded mean of the
\* word counts of all bullets of the confirmed resume, an empty or blank
\* bullet counting 0 words, and 18 for a resume without bullets.
C27_AvgBulletLen ==
    [][\A call \in calls :
          SessionWritten(call) =>
              store'.sessions[Len(store'.sessions)].avgBulletLen
                  = MeanWordsPerBullet(call.data.confirmedResume)]_vars

(***************************************************************************)
(* The store after CLEAR_MEMORY.                                           *)
(***************************************************************************)
\* the memory a reader finds is the empty one
MemoryIsEmpty ==
    /\ readMemory(store).sessions = <<>>
    /\ readMemory(store).aggregate.preferenceSummary = Null
    /\ readMemory(store).aggregate.summaryBuiltAt = Num(0)

\* C29: after clearMemory the stored memory stays empty until a
\* RECORD_SESSION request is taken: no handler that was in flight when the
\* memory was cleared writes back sessions or a summary it had read before.
C29_ClearedStaysEmpty == history.cleared => MemoryIsEmpty

(***************************************************************************)
(* content/content.js: the content script of a job page.  The page is a    *)
(* single-page application: its URL changes without a reload and its DOM   *)
(* shows the job some time after.  tryExtract runs from the debounce       *)
(* timeout of the MutationObserver and from the three timed retries.       *)
(***************************************************************************)
MaxSent == 3       \* JOB_DETECTED messages after which the page stays

DEBOUNCE_MS == 800

\* a slip: the URL is kept before the extraction is tried
tryExtractMarkingFirst(loc, found, lastUrl) ==
    LET extractor ==
            IF includes(loc.hostname, "linkedin.com") THEN "linkedin"
            ELSE IF includes(loc.hostname, "indeed.com") THEN "indeed"
            ELSE ""
        job == IF found THEN [source |-> extractor, url |-> loc.href] ELSE Null
    IN  IF extractor = "" \/ Str(loc.href) = lastUrl
        THEN [lastExtractedUrl |-> lastUrl, sent |-> <<>>, extracted |-> Undefined]
        ELSE IF job = Null
        THEN [lastExtractedUrl |-> Str(loc.href), sent |-> <<>>, extracted |-> Null]
        ELSE [lastExtractedUrl |-> Str(loc.href),
              sent |-> <<[action |-> "JOB_DETECTED", data |-> job]>>,
              extracted |-> job]

\* tryExtract at the location loc, the extractor finding a job or not: the
\* new lastExtractedUrl, the messages sent, and what the extractor returned
\* (undefined when it was not called)
tryExtract(loc, found, lastUrl) ==
    LET \* getExtractor
        extractor ==
            IF includes(loc.hostname, "linkedin.com") THEN "linkedin"
            ELSE IF includes(loc.hostname, "indeed.com") THEN "indeed"
            ELSE ""
        \* the extractor: null without a title or a description
        job == IF found THEN [source |-> extractor, url |-> loc.href] ELSE Null
    IN  IF extractor = "" \/ Str(loc.href) = lastUrl
        THEN [lastExtractedUrl |-> lastUrl, sent |-> <<>>, extracted |-> Undefined]
        ELSE IF job = Null
        THEN [lastExtractedUrl |-> lastUrl, sent |-> <<>>, extracted |-> Null]
        ELSE [lastExtractedUrl |-> Str(loc.href),
              sent |-> <<[action |-> "JOB_DETECTED", data |-> job]>>,
              extracted |-> job]

\* the script is loaded into a page: the observer is set up and the three
\* retries are scheduled
ContentInit ==
    /\ \E hostname \in {"www.linkedin.com", "www.indeed.com", "jobs.example"} :
          \E path \in {"/jobs/view/1", "/jobs/view/2"} :
              location = [hostname |-> hostname, href |-> "https://" \o hostname \o path]
    /\ jobInDom \in BOOLEAN
    /\ lastExtractedUrl = Null
    /\ debounceTimer = FALSE
    /\ retryTimers = {1000, 2500, 5000}
    /\ sentMessages = <<>>
    /\ failedUrls = {}
    /\ Idle({"content"})

\* the page changes its DOM, showing the job or not; the observer restarts
\* the debounce timeout
DomMutates ==
    /\ jobInDom' \in BOOLEAN
    /\ debounceTimer' = TRUE
    /\ UNCHANGED <<location, lastExtractedUrl, retryTimers, sentMessages, failedUrls,
                   kwVars, parseVars, tailorVars, classifyVars, dueVars, memoryVars,
                   panelVars>>

\* the page moves to another job without a reload
Navigate ==
    /\ Len(sentMessages) < MaxSent
    /\ \E path \in {"/jobs/view/1", "/jobs/view/2"} :
          /\ location.href # "https://" \o location.hostname \o path
          /\ location' = [location EXCEPT !.href = "https://" \o location.hostname \o path]
    /\ UNCHANGED <<jobInDom, lastExtractedUrl, debounceTimer, retryTimers, sentMessages,
                   failedUrls, kwVars, parseVars, tailorVars, classifyVars, dueVars,
                   memoryVars, panelVars>>

\* a timer is due, the debounce timeout or the next timed retry: tryExtract
\* runs; after a message it shows the badge, a change of the DOM that the
\* observer sees
TimedTryExtract ==
    \E delay \in (IF debounceTimer THEN {DEBOUNCE_MS} ELSE {})
                    \cup {d \in retryTimers : \A e \in retryTimers : d <= e} :
        LET result == tryExtract(location, jobInDom, lastExtractedUrl)
        IN  /\ lastExtractedUrl' = result.lastExtractedUrl
            /\ sentMessages' = sentMessages \o result.sent
            /\ failedUrls' = IF result.extracted = Null
                             THEN failedUrls \cup {location.href} ELSE failedUrls
            /\ debounceTimer' = IF delay = DEBOUNCE_MS THEN result.sent # <<>>
                                ELSE debounceTimer \/ result.sent # <<>>
            /\ retryTimers' = retryTimers \ {delay}
            /\ UNCHANGED <<location, jobInDom, kwVars, parseVars, tailorVars, classifyVars,
                           dueVars, memoryVars, panelVars>>

ContentNext ==
    \/ DomMutates
    \/ Navigate
    \/ TimedTryExtract

SpecContent == ContentInit /\ [][ContentNext]_vars

(***************************************************************************)
(* Properties of the content script.                                       *)
(***************************************************************************)
\* this step is a run of tryExtract
TryExtractRuns ==
    \/ debounceTimer /\ retryTimers' = retryTimers /\ jobInDom' = jobInDom
                     /\ location' = location /\ (~debounceTimer' \/ sentMessages' # sentMessages)
    \/ retryTimers' # retryTimers

\* C30: the content script never sends two consecutive JOB_DETECTED
\* messages for the same page URL, a run of tryExtract in which the
\* extractor finds no job sends nothing, and a run at a URL where an
\* extraction failed before sends the message of that URL once the
\* extractor finds the job, unless the URL is the one relayed last.
C30_NoRepeatNoBlock ==
    /\ [](\A i \in 1..(Len(sentMessages) - 1) :
            sentMessages[i].data.url # sentMessages[i + 1].data.url)
    /\ [][~jobInDom => sentMessages' = sentMessages]_vars
    /\ [][(/\ TryExtractRuns
           /\ jobInDom
           /\ location.href \in failedUrls
           /\ Str(location.href) # lastExtractedUrl)
          => /\ Len(sentMessages') = Len(sentMessages) + 1
             /\ sentMessages'[Len(sentMessages')].data.url = location.href]_vars

\* an extraction failed at a URL, and later the job of that URL was relayed,
\* after the job of another URL
C30_Witness ==
    /\ Len(sentMessages) = 2
    /\ sentMessages[2].data.url \in failedUrls
    /\ lastExtractedUrl = Str(location.href)
    /\ sentMessages[2].data.url = location.href
    /\ retryTimers # {}

(***************************************************************************)
(* The side panel: the Tailor and Try Again buttons, the error display     *)
(* with its countdown, and the download of the tailored resume.  The       *)
(* panel awaits one response at a time.  A pending setInterval callback is *)
(* [kind, remaining, latest], latest marking the interval of the           *)
(* RATE_LIMIT error shown last; intervals fire in turn, one second apart.  *)
(***************************************************************************)
MaxTimers == 2     \* callbacks pending when the user clicks Tailor or Try Again

\* hideAll
hideAll(elements) ==
    [elements EXCEPT !.loadingState.hidden = TRUE,
                     !.errorState.hidden = TRUE,
                     !.previewState.hidden = TRUE,
                     !.keywordSection.hidden = FALSE,
                     !.tailorBtnSection.hidden = FALSE]

\* showError(messageOrErr) with the elements and the pending callbacks as
\* they are: the elements and the callbacks after it
showError(elements, queue, messageOrErr) ==
    LET err == IF messageOrErr.t \in {"object", "null"} THEN messageOrErr ELSE Null
        code == Get(err, "code")
        formatError ==
            IF code \in {Str("DAILY_LIMIT"), Str("RATE_LIMIT")} THEN Get(err, "message").v
            ELSE IF code = Str("INVALID_KEY") THEN "Invalid API key. Check Settings."
            ELSE IF code = Str("NO_RESUME") THEN "No base resume. Upload one in Settings."
            ELSE IF code = Str("NO_KEY") THEN "No API key. Add one in Settings."
            ELSE IF Truthy(Get(err, "message")) THEN Get(err, "message").v
            ELSE "Something went wrong. Try again."
        message == IF messageOrErr.t = "string" THEN messageOrErr.v ELSE formatError
        shown == [elements EXCEPT !.loadingState.hidden = TRUE,
                                  !.previewState.hidden = TRUE,
                                  !.keywordSection.hidden = FALSE,
                                  !.tailorBtnSection.hidden = FALSE,
                                  !.errorMsg.textContent = message,
                                  !.errorState.hidden = FALSE]
        remaining == Get(err, "retryAfter").v
    IN  IF code = Str("DAILY_LIMIT")
        THEN [els |-> [shown EXCEPT !.errorRetryBtn.hidden = TRUE], timers |-> queue]
        ELSE IF code = Str("RATE_LIMIT") /\ Truthy(Get(err, "retryAfter"))
        THEN [els |-> [shown EXCEPT !.errorRetryBtn =
                          [hidden |-> FALSE, disabled |-> TRUE,
                           textContent |-> "Wait " \o ToString(remaining) \o "s"]],
              timers |-> Append([k \in 1..Len(queue) |-> [queue[k] EXCEPT !.latest = FALSE]],
                                [kind |-> "interval", remaining |-> remaining,
                                 latest |-> TRUE])]
        ELSE [els |-> [shown EXCEPT !.errorRetryBtn =
                          [hidden |-> FALSE, disabled |-> FALSE,
                           textContent |-> "Try Again"]],
              timers |-> queue]

\* the panel is open, a job description is entered and the Tailor button is
\* enabled (runKeywordAnalysis found no base resume text and returned)
PanelInit ==
    /\ panelState = [currentJob |-> Null, pendingResume |-> Null]
    /\ els = [tailorBtn |-> [disabled |-> FALSE],
              tailorBtnSection |-> [hidden |-> FALSE],
              keywordSection |-> [hidden |-> TRUE],
              loadingState |-> [hidden |-> TRUE],
              previewState |-> [hidden |-> TRUE],
              downloadBtn |-> [disabled |-> FALSE],
              errorState |-> [hidden |-> TRUE],
              errorMsg |-> [textContent |-> ""],
              errorRetryBtn |-> [hidden |-> FALSE, disabled |-> FALSE,
                                 textContent |-> "Try Again"]]
    /\ timers = <<>>
    /\ inFlight = Null
    /\ panelLog = [shown |-> Null, recorded |-> Null]
    /\ Idle({"panel"})

\* a click on Tailor or on Try Again: handleTailorClick up to its await
ClickTailor ==
    /\ inFlight = Null
    /\ Len(timers) < MaxTimers
    /\ \/ ~els.tailorBtnSection.hidden /\ ~els.tailorBtn.disabled
       \/ /\ ~els.errorState.hidden
          /\ ~els.errorRetryBtn.hidden
          /\ ~els.errorRetryBtn.disabled
    /\ \E job \in {Null, Obj([title |-> Str("Data Engineer"), company |-> Str("Acme"),
                              description |-> Str("Python developer for data pipelines"),
                              source |-> Str("manual"), url |-> Str("")])} :
          IF job = Null
          THEN LET message == Str("Please paste a job description to tailor your resume.")
               IN  /\ els' = showError(els, timers, message).els
                   /\ timers' = showError(els, timers, message).timers
                   /\ panelLog' = [panelLog EXCEPT !.shown = message]
                   /\ UNCHANGED <<panelState, inFlight>>
          ELSE /\ panelState' = [panelState EXCEPT !.currentJob = job]
               /\ els' = [els EXCEPT !.keywordSection.hidden = TRUE,
                                     !.tailorBtnSection.hidden = TRUE,
                                     !.previewState.hidden = TRUE,
                                     !.errorState.hidden = TRUE,
                                     !.loadingState.hidden = FALSE]
               /\ inFlight' = [action |-> "TAILOR_RESUME",
                               data |-> [jobDescription |-> Get(job, "description")]]
               /\ UNCHANGED <<timers, panelLog>>
    /\ UNCHANGED <<kwVars, parseVars, tailorVars, classifyVars, dueVars, memoryVars,
                   contentVars>>

\* the response to TAILOR_RESUME arrives: the preview or the error is shown
TailorResponds ==
    /\ inFlight # Null
    /\ inFlight.action = "TAILOR_RESUME"
    /\ inFlight' = Null
    /\ \E response \in
            {[success |-> TRUE,
              data |-> [resume |-> Obj([name |-> Str("Ada"), experience |-> Arr(<<>>)])]]}
            \cup {[success |-> FALSE, error |-> Obj(error)] :
                    error \in {[code |-> Str("DAILY_LIMIT"),
                                message |-> Str("Daily quota reached."),
                                retryAfter |-> Null],
                               [code |-> Str("RATE_LIMIT"),
                                message |-> Str("Rate limit hit."),
                                retryAfter |-> Num(1)],
                               [code |-> Str("RATE_LIMIT"),
                                message |-> Str("Rate limit hit."),
                                retryAfter |-> Num(2)],
                               [code |-> Str("UNKNOWN"),
                                message |-> Str("fetch failed")]}} :
          IF response.success
          THEN /\ panelState' = [panelState EXCEPT !.pendingResume = response.data.resume]
               /\ els' = [hideAll(els) EXCEPT !.previewState.hidden = FALSE]
               /\ UNCHANGED <<timers, panelLog>>
          ELSE /\ els' = showError(els, timers, response.error).els
               /\ timers' = showError(els, timers, response.error).timers
               /\ panelLog' = [panelLog EXCEPT !.shown = response.error]
               /\ UNCHANGED panelState
    /\ UNCHANGED <<kwVars, parseVars, tailorVars, classifyVars, dueVars, memoryVars,
                   contentVars>>

\* the adapter of the analysis for the older callers
flattenKeywordAnalysis(analysis) ==
    LET missingOf(key) ==
            IF key \in DOMAIN analysis
            THEN LET isMissing(s) == s.status = "missing"
                     skills == SelectSeq(analysis[key].skills, isMissing)
                 IN  [k \in 1..Len(skills) |-> skills[k].name]
            ELSE <<>>
    IN  IF analysis = Null THEN [matched |-> <<>>, missing |-> <<>>, jdKeywords |-> <<>>]
        ELSE [matched |-> IF "approvedKeywords" \in DOMAIN analysis
                          THEN analysis.approvedKeywords ELSE <<>>,
              missing |-> missingOf("hardSkills") \o missingOf("softSkills")
                              \o missingOf("otherSkills"),
              jdKeywords |-> IF "jdKeywords" \in DOMAIN analysis
                             THEN analysis.jdKeywords ELSE <<>>]

\* a click on Download: handleDownloadClick up to its await
ClickDownload ==
    /\ inFlight = Null
    /\ Len(timers) < MaxTimers
    /\ ~els.previewState.hidden
    /\ ~els.downloadBtn.disabled
    /\ IF ~Truthy(panelState.pendingResume) \/ ~Truthy(panelState.currentJob)
       THEN UNCHANGED <<els, inFlight>>
       ELSE /\ els' = [els EXCEPT !.downloadBtn.disabled = TRUE]
            /\ inFlight' = [action |-> "GENERATE_DOCX",
                            data |-> [resume |-> panelState.pendingResume,
                                      jobData |-> panelState.currentJob]]
    /\ UNCHANGED <<panelState, timers, panelLog, kwVars, parseVars, tailorVars,
                   classifyVars, dueVars, memoryVars, contentVars>>

\* the response to GENERATE_DOCX arrives: the file is downloaded, the
\* session is sent to be recorded and the reset of the tab is scheduled; or
\* the error is shown
DocxResponds ==
    /\ inFlight # Null
    /\ inFlight.action = "GENERATE_DOCX"
    /\ inFlight' = Null
    /\ \E response \in
            {[success |-> TRUE,
              data |-> [base64 |-> "UEsDBA==", filename |-> "Ada_Acme_DataEngineer.docx"]],
             [success |-> FALSE,
              error |-> Obj([code |-> Str("UNKNOWN"),
                             message |-> Str("Cannot build the document")])]} :
          IF response.success
          THEN /\ panelLog' =
                     [panelLog EXCEPT !.recorded =
                         [jobData |-> panelState.currentJob,
                          confirmedResume |-> panelState.pendingResume,
                          keywordsUsed |->
                              Arr(flattenKeywordAnalysis(keywordAnalysis).matched)]]
               /\ timers' = Append(timers, [kind |-> "timeout", remaining |-> 0,
                                            latest |-> FALSE])
               /\ UNCHANGED els
          ELSE /\ els' = showError([els EXCEPT !.downloadBtn.disabled = FALSE],
                                   timers, response.error).els
               /\ timers' = showError(els, timers, response.error).timers
               /\ panelLog' = [panelLog EXCEPT !.shown = response.error]
    /\ UNCHANGED <<panelState, kwVars, parseVars, tailorVars, classifyVars, dueVars,
                   memoryVars, contentVars>>

\* a callback is due: the interval whose turn it is counts a second down
\* and, at zero, clears itself and enables Try Again; the timeout set by the
\* download runs resetTailorTab
TimerFires ==
    \E k \in 1..Len(timers) :
        LET timer == timers[k]
            others == SubSeq(timers, 1, k - 1) \o SubSeq(timers, k + 1, Len(timers))
        IN  /\ timer.kind = "interval" => \A j \in 1..(k - 1) : timers[j].kind # "interval"
            /\ IF timer.kind = "interval"
               THEN /\ IF timer.remaining - 1 <= 0
                       THEN /\ timers' = others
                            /\ els' = [els EXCEPT !.errorRetryBtn.disabled = FALSE,
                                                  !.errorRetryBtn.textContent = "Try Again"]
                       ELSE /\ timers' = Append(others,
                                            [timer EXCEPT !.remaining = timer.remaining - 1])
                            /\ els' = [els EXCEPT !.errorRetryBtn.textContent =
                                          "Wait " \o ToString(timer.remaining - 1) \o "s"]
                    /\ UNCHANGED panelState
               ELSE /\ timers' = others
                    /\ panelState' = [panelState EXCEPT !.pendingResume = Null]
                    /\ els' = [hideAll(els) EXCEPT !.downloadBtn.disabled = FALSE]
            /\ UNCHANGED <<inFlight, panelLog, kwVars, parseVars, tailorVars, classifyVars,
                           dueVars, memoryVars, contentVars>>

PanelNext ==
    \/ ClickTailor
    \/ TailorResponds
    \/ ClickDownload
    \/ DocxResponds
    \/ TimerFires

SpecPanel == PanelInit /\ [][PanelNext]_vars

(***************************************************************************)
(* The download after a skill-gap analysis: a tailored resume is shown in  *)
(* the preview, the job description is edited and analysed, and the user   *)
(* confirms the download.                                                  *)
(***************************************************************************)
DownloadInit ==
    /\ kwResume \in Resumes
    /\ kwJob = ""
    /\ keywordAnalysis = Null
    /\ panelState =
          [currentJob |-> Obj([title |-> Str("Data Engineer"), company |-> Str("Acme"),
                               description |-> Str("Python developer for data pipelines"),
                               source |-> Str("manual"), url |-> Str("")]),
           pendingResume |-> Obj([name |-> Str("Ada"), experience |-> Arr(<<>>)])]
    /\ els = [tailorBtn |-> [disabled |-> FALSE],
              tailorBtnSection |-> [hidden |-> FALSE],
              keywordSection |-> [hidden |-> FALSE],
              loadingState |-> [hidden |-> TRUE],
              previewState |-> [hidden |-> FALSE],
              downloadBtn |-> [disabled |-> FALSE],
              errorState |-> [hidden |-> TRUE],
              errorMsg |-> [textContent |-> ""],
              errorRetryBtn |-> [hidden |-> FALSE, disabled |-> FALSE,
                                 textContent |-> "Try Again"]]
    /\ timers = <<>>
    /\ inFlight = Null
    /\ panelLog = [shown |-> Null, recorded |-> Null]
    /\ Idle({"kw", "panel"})

DownloadNext ==
    \/ RunKeywordAnalysis
    \/ ClickDownload
    \/ DocxResponds
    \/ TimerFires

SpecDownload == DownloadInit /\ [][DownloadNext]_vars

(***************************************************************************)
(* Properties of the error display of the side panel.                      *)
(***************************************************************************)
\* the error on display is the one with this code
Displayed(code) ==
    /\ ~els.errorState.hidden
    /\ Get(panelLog.shown, "code") = Str(code)

\* a control that the user can click and that runs handleTailorClick
RetryOffered ==
    \/ ~els.tailorBtnSection.hidden /\ ~els.tailorBtn.disabled
    \/ ~els.errorState.hidden /\ ~els.errorRetryBtn.hidden /\ ~els.errorRetryBtn.disabled

\* a countdown is pending, which enables Try Again when it ends
CountdownPending == \E k \in 1..Len(timers) : timers[k].kind = "interval"

\* C24: while a DAILY_LIMIT error is on display, no enabled control re-sends
\* the tailoring request and no pending timer enables one.
C24_DailyLimitNoRetry ==
    Displayed("DAILY_LIMIT") => ~RetryOffered /\ ~CountdownPending

\* the countdown of the RATE_LIMIT error shown last has not reached zero
LatestCountdownRunning ==
    \E k \in 1..Len(timers) : timers[k].kind = "interval" /\ timers[k].latest

\* C25: while a RATE_LIMIT error is on display and its countdown has not
\* reached zero, Try Again is disabled, whatever errors were shown before.
C25_CountdownGatesRetry ==
    (Displayed("RATE_LIMIT") /\ LatestCountdownRunning) => els.errorRetryBtn.disabled

(***************************************************************************)
(* Properties of the session sent at the download.                         *)
(***************************************************************************)
\* the skills the analysis reports as matched, over the three categories
MatchedSkills(analysis) ==
    UNION {{analysis[key].skills[k].name :
                k \in {i \in 1..Len(analysis[key].skills) :
                          analysis[key].skills[i].status = "matched"}} :
           key \in {"hardSkills", "softSkills", "otherSkills"}}

\* C28: the RECORD_SESSION message sent at a download after an analysis
\* carries as keywordsUsed the skills the analysis reported as matched, so
\* that keywordsUsed is not empty when a skill was matched.
C28_KeywordsUsedAreMatched ==
    [][(panelLog'.recorded # panelLog.recorded /\ keywordAnalysis # Null) =>
            SeqToSet(panelLog'.recorded.keywordsUsed.v) = MatchedSkills(keywordAnalysis)]_vars

============================================================================
